---- MODULE Spec2Model ----
(***************************************************************************)
(* Model of the tsa package: condition parsing (tsa/utils.py,              *)
(* tsa/block.py, tsa/condition.py) and the evaluation of a Condition       *)
(* against the per-block validity ranges of the database.                  *)
(*                                                                         *)
(* A Python str is a sequence of one-character strings.  None is a value   *)
(* that is no str.                                                         *)
(***************************************************************************)
EXTENDS Integers, Sequences, FiniteSets, TLC

None == <<"None">>

\* ------------------------------------------------------------------------
\* Character classes and str built-ins
\* ------------------------------------------------------------------------
Digits == {"0", "1", "2", "3", "4", "5", "6", "7", "8", "9"}

UpperSeq == <<"A", "B", "C", "D", "E", "F", "G", "H", "I", "J", "K", "L", "M",
              "N", "O", "P", "Q", "R", "S", "T", "U", "V", "W", "X", "Y", "Z",
              "Ä", "Ö", "Å">>

LowerSeq == <<"a", "b", "c", "d", "e", "f", "g", "h", "i", "j", "k", "l", "m",
              "n", "o", "p", "q", "r", "s", "t", "u", "v", "w", "x", "y", "z",
              "ä", "ö", "å">>

Letters == {UpperSeq[i] : i \in 1..Len(UpperSeq)} \cup {LowerSeq[i] : i \in 1..Len(LowerSeq)}

\* str.isdigit() / str.isalnum() of one character (isalnum is Unicode-aware)
isdigit(c) == c \in Digits

isalnum(c) == c \in Digits \cup Letters

\* str.lower() of one character
LowerChar(c) ==
    IF \E i \in 1..Len(UpperSeq) : UpperSeq[i] = c
    THEN LowerSeq[CHOOSE i \in 1..Len(UpperSeq) : UpperSeq[i] = c]
    ELSE c

\* str.lower()
lower(s) == [i \in 1..Len(s) |-> LowerChar(s[i])]

\* s[i:] with a 1-based i
Drop(s, i) == SubSeq(s, i, Len(s))

\* does p occur in s at (1-based) position i ?
OccursAt(s, p, i) ==
    /\ i >= 1
    /\ i + Len(p) - 1 <= Len(s)
    /\ \A k \in 1..Len(p) : s[i + k - 1] = p[k]

\* p in s
contains(s, p) == \E i \in 1..(Len(s) + 1) : OccursAt(s, p, i)

\* s.startswith(p), s.endswith(p)
startswith(s, p) == OccursAt(s, p, 1)

endswith(s, p) == OccursAt(s, p, Len(s) - Len(p) + 1)

\* s.count(p): number of non-overlapping occurrences, scanning from the left
RECURSIVE CountFrom(_, _, _)
CountFrom(s, p, i) ==
    IF i + Len(p) - 1 > Len(s) THEN 0
    ELSE IF OccursAt(s, p, i) THEN 1 + CountFrom(s, p, i + Len(p))
    ELSE CountFrom(s, p, i + 1)

count(s, p) == CountFrom(s, p, 1)

\* s.split(p) for a non-empty separator p: the list of parts
RECURSIVE SplitFrom(_, _, _, _)
SplitFrom(s, p, i, cur) ==
    IF i > Len(s) THEN <<cur>>
    ELSE IF OccursAt(s, p, i) THEN <<cur>> \o SplitFrom(s, p, i + Len(p), <<>>)
    ELSE SplitFrom(s, p, i + 1, Append(cur, s[i]))

split(s, p) == SplitFrom(s, p, 1, <<>>)

\* s.replace(c, d) for a single character c and a str d
RECURSIVE replace(_, _, _)
replace(s, c, d) ==
    IF s = <<>> THEN <<>>
    ELSE (IF Head(s) = c THEN d ELSE <<Head(s)>>) \o replace(Tail(s), c, d)

\* s.strip(): the only whitespace character of the model is the space
RECURSIVE lstrip(_)
lstrip(s) == IF s # <<>> /\ Head(s) = " " THEN lstrip(Tail(s)) ELSE s

RECURSIVE rstrip(_)
rstrip(s) ==
    IF s # <<>> /\ s[Len(s)] = " " THEN rstrip(SubSeq(s, 1, Len(s) - 1)) ELSE s

strip(s) == rstrip(lstrip(s))

\* ' '.join(value.split()).strip(): runs of whitespace become one space
RECURSIVE CollapseRuns(_)
CollapseRuns(s) ==
    IF Len(s) < 2 THEN s
    ELSE IF s[1] = " " /\ s[2] = " " THEN CollapseRuns(Tail(s))
    ELSE <<s[1]>> \o CollapseRuns(Tail(s))

join_split(s) == CollapseRuns(strip(s))

\* str(i) of a natural number
RECURSIVE str(_)
str(n) ==
    LET d == CHOOSE c \in Digits :
                 c = <<"0", "1", "2", "3", "4", "5", "6", "7", "8", "9">>[(n % 10) + 1]
    IN IF n < 10 THEN <<d>> ELSE str(n \div 10) \o <<d>>

\* int(s) of a str of digits
RECURSIVE int(_)
int(s) ==
    LET v(c) == CHOOSE k \in 0..9 :
                    <<"0", "1", "2", "3", "4", "5", "6", "7", "8", "9">>[k + 1] = c
    IN IF s = <<>> THEN 0 ELSE 10 * int(SubSeq(s, 1, Len(s) - 1)) + v(s[Len(s)])

\* ''.join(i for i in s if i.isdigit())
OnlyDigits(s) == SelectSeq(s, isdigit)

\* Concatenation of a sequence of strs
RECURSIVE Flatten(_)
Flatten(ss) == IF ss = <<>> THEN <<>> ELSE Head(ss) \o Flatten(Tail(ss))

\* ------------------------------------------------------------------------
\* tsa/utils.py
\* ------------------------------------------------------------------------
eliminate_umlauts(x) ==
    replace(replace(replace(replace(x, "ä", <<"a">>), "Ä", <<"A">>),
                    "ö", <<"o">>), "Ö", <<"O">>)

DISABLED_IDENTIFIERS ==
    { <<"s","t","a","t","i","o","n","s">>,
      <<"s","t","a","t","o","b","s">>,
      <<"s","e","n","s","o","r","s">>,
      <<"s","e","o","b","s">>,
      <<"l","a","s","k","e","n","n","a","l","l","i","n","e","n","_","a","n","t","u","r","i">>,
      <<"t","i","e","s","a","a","_","a","s","e","m","a">> }

\* maximum identifier length that to_pg_identifier lets through
PgMaxLen == 63

\* The result of a call: exc is "none" when the call returns val, and the
\* exception class when it raises.
Returned(v) == [exc |-> "none", val |-> v]

Raised(e) == [exc |-> e, val |-> None]

Normalized_unstripped(x) == replace(eliminate_umlauts(lower(x)), " ", <<"_">>)

Normalized(x) == replace(eliminate_umlauts(lower(strip(x))), " ", <<"_">>)

to_pg_identifier(x0) ==
    LET x == Normalized(x0)
    IN IF x \in DISABLED_IDENTIFIERS THEN Raised("ValueError")
       ELSE IF x = <<>> THEN Raised("IndexError")
       ELSE IF isdigit(x[1]) THEN Raised("ValueError")
       ELSE IF Len(x) > PgMaxLen THEN Raised("ValueError")
       ELSE IF \E i \in 1..Len(x) : ~(isalnum(x[i]) \/ x[i] = "_")
            THEN Raised("ValueError")
       ELSE Returned(x)

\* ------------------------------------------------------------------------
\* tsa/block.py
\* ------------------------------------------------------------------------
binops == << <<" ", "=", " ">>, <<" ", "<", ">", " ">>, <<" ", ">", " ">>,
             <<" ", "<", " ">>, <<" ", ">", "=", " ">>, <<" ", "<", "=", " ">>,
             <<" ", "i", "n", " ">> >>

n_hashtags(raw_logic) == count(raw_logic, <<"#">>)

\* the loop over binops: the summed counts of the operators found
RECURSIVE SumBinops(_, _)
SumBinops(raw_logic, k) ==
    IF k = 0 THEN 0
    ELSE SumBinops(raw_logic, k - 1) + count(raw_logic, binops[k])

n_binops(raw_logic) == SumBinops(raw_logic, Len(binops))

\* the loop over binops: the last operator of the list found in raw_logic
binop_in_str(raw_logic) ==
    IF \E k \in 1..Len(binops) : contains(raw_logic, binops[k])
    THEN binops[CHOOSE k \in 1..Len(binops) :
                    /\ contains(raw_logic, binops[k])
                    /\ \A j \in (k + 1)..Len(binops) : ~contains(raw_logic, binops[j])]
    ELSE None

\* int(''.join(i for i in station if i.isdigit())): ValueError without digits.
\* The int is kept as its decimal digits.
station_id_of(station) ==
    IF OnlyDigits(station) = <<>> THEN Raised("ValueError")
    ELSE Returned(str(int(OnlyDigits(station))))

\* the check of the value that follows the operator "in"
InValueRejected(value_str) ==
    ~startswith(value_str, <<"(">>) /\ ~endswith(value_str, <<")">>)

\* The attributes of a Block when __init__ has assigned them and before
\* unpack_logic runs; exc is the exception that ends the construction.
NewBlock(master_alias, parent_site, order_nr, raw_logic) ==
    [ raw_logic    |-> raw_logic,
      master_alias |-> master_alias,
      parent_site  |-> parent_site,
      order_nr     |-> order_nr,
      alias        |-> master_alias \o <<"_">> \o str(order_nr),
      secondary    |-> "None",
      site         |-> None,
      station      |-> None,
      station_id   |-> None,
      source_alias |-> None,
      source_view  |-> None,
      sensor       |-> None,
      sensor_id    |-> None,
      operator     |-> None,
      value_str    |-> None,
      exc          |-> "none" ]

\* An exception that leaves a try block of unpack_logic.  The handler of
\* ValueError calls error_context(after=e), which adds the exception object
\* to a str and so raises TypeError; other exceptions pass through.
FromTry(e) == IF e = "ValueError" THEN "TypeError" ELSE e

\* Case 1: no hashtag and no binary operator
UnpackCase1(b) ==
    LET b1 == [b EXCEPT !.secondary = "True", !.site = b.parent_site]
        r  == to_pg_identifier(b.raw_logic)
    IN IF r.exc # "none" THEN [b1 EXCEPT !.exc = FromTry(r.exc)]
       ELSE [b1 EXCEPT !.source_alias = r.val,
                       !.source_view = b1.site \o <<"_">> \o r.val]

\* Case 2: hashtag but no binary operator
UnpackCase2(b) ==
    LET b1    == [b EXCEPT !.secondary = "True"]
        parts == split(b.raw_logic, <<"#">>)
        r0    == to_pg_identifier(parts[1])
        r1    == to_pg_identifier(parts[2])
    IN IF r0.exc # "none" THEN [b1 EXCEPT !.exc = FromTry(r0.exc)]
       ELSE IF r1.exc # "none" THEN [b1 EXCEPT !.site = r0.val, !.exc = FromTry(r1.exc)]
       ELSE [b1 EXCEPT !.site = r0.val,
                       !.source_alias = r1.val,
                       !.source_view = r0.val \o <<"_">> \o r1.val]

\* Case 3: hashtag and binary operator
UnpackCase3(b) ==
    LET b1    == [b EXCEPT !.secondary = "False", !.site = b.parent_site]
        op    == binop_in_str(b.raw_logic)
        hp    == split(b.raw_logic, <<"#">>)
        parts == <<hp[1]>> \o split(hp[2], op)
        r0    == to_pg_identifier(parts[1])
        sid   == station_id_of(r0.val)
        r1    == to_pg_identifier(parts[2])
        oper  == strip(lower(op))
        b2    == [b1 EXCEPT !.station = r0.val]
        b3    == [b2 EXCEPT !.station_id = sid.val]
        b4    == [b3 EXCEPT !.sensor = r1.val, !.operator = oper]
        b5    == [b4 EXCEPT !.value_str = strip(lower(parts[3]))]
    IN IF r0.exc # "none" THEN [b1 EXCEPT !.exc = FromTry(r0.exc)]
       ELSE IF sid.exc # "none" THEN [b2 EXCEPT !.exc = FromTry(sid.exc)]
       ELSE IF r1.exc # "none" THEN [b3 EXCEPT !.exc = FromTry(r1.exc)]
       ELSE IF Len(parts) < 3 THEN [b4 EXCEPT !.exc = "IndexError"]
       ELSE IF oper = <<"i", "n">> /\ InValueRejected(b5.value_str)
            THEN [b5 EXCEPT !.exc = "ValueError"]
       ELSE b5

unpack_logic(b) ==
    LET nh == n_hashtags(b.raw_logic)
        nb == n_binops(b.raw_logic)
    IN IF nh > 1 THEN [b EXCEPT !.exc = "ValueError"]
       ELSE IF nb > 1 THEN [b EXCEPT !.exc = "ValueError"]
       ELSE IF nh = 0 /\ nb = 0 THEN UnpackCase1(b)
       ELSE IF nh = 1 /\ nb = 0 THEN UnpackCase2(b)
       ELSE IF nh = 1 /\ nb = 1 THEN UnpackCase3(b)
       ELSE [b EXCEPT !.exc = "ValueError"]

\* Block.__init__
Block(master_alias, parent_site, order_nr, raw_logic) ==
    LET ma == to_pg_identifier(master_alias)
        ps == to_pg_identifier(parent_site)
    IN IF ma.exc # "none"
       THEN [NewBlock(None, None, order_nr, raw_logic) EXCEPT !.exc = ma.exc, !.alias = None]
       ELSE IF ps.exc # "none"
       THEN [NewBlock(ma.val, None, order_nr, raw_logic) EXCEPT !.exc = ps.exc, !.alias = None]
       ELSE unpack_logic(NewBlock(ma.val, ps.val, order_nr, raw_logic))

\* ------------------------------------------------------------------------
\* tsa/condition.py: Condition.make_blocks
\* ------------------------------------------------------------------------
\* Condition.add_error: only unique errors are collected
add_error(errors, msg) ==
    IF \E k \in 1..Len(errors) : errors[k] = msg THEN errors ELSE Append(errors, msg)

RECURSIVE add_errors(_, _)
add_errors(errors, msgs) ==
    IF msgs = <<>> THEN errors
    ELSE add_errors(add_error(errors, Head(msgs)), Tail(msgs))

kw_and == <<"a", "n", "d">>

kw_or == <<"o", "r">>

kw_not == <<"n", "o", "t">>

\* (?<=\s)w(?=\s) at position i
SpacedWordAt(s, w, i) ==
    /\ OccursAt(s, w, i)
    /\ i > 1 /\ s[i - 1] = " "
    /\ i + Len(w) <= Len(s) /\ s[i + Len(w)] = " "

\* The length of the match of the split pattern at position i, 0 if none:
\* ([()]|(?<=\s)and(?=\s)|(?<=\s)or(?=\s)|(?<=\s)not(?=\s)|^not(?=\s))
MatchLen(s, i) ==
    IF s[i] = "(" \/ s[i] = ")" THEN 1
    ELSE IF SpacedWordAt(s, kw_and, i) THEN 3
    ELSE IF SpacedWordAt(s, kw_or, i) THEN 2
    ELSE IF SpacedWordAt(s, kw_not, i) THEN 3
    ELSE IF i = 1 /\ OccursAt(s, kw_not, 1) /\ Len(s) >= 4 /\ s[4] = " " THEN 3
    ELSE 0

\* re.split with one capturing group: texts and delimiters alternate
RECURSIVE ReSplitFrom(_, _, _)
ReSplitFrom(s, i, cur) ==
    IF i > Len(s) THEN <<cur>>
    ELSE IF MatchLen(s, i) > 0
         THEN <<cur, SubSeq(s, i, i + MatchLen(s, i) - 1)>>
              \o ReSplitFrom(s, i + MatchLen(s, i), <<>>)
    ELSE ReSplitFrom(s, i + 1, Append(cur, s[i]))

NonEmpty(el) == el # <<>>

\* sp: the split result, stripped, without empty elements
sp_of(value) ==
    LET parts == ReSplitFrom(value, 1, <<>>)
    IN SelectSeq([k \in 1..Len(parts) |-> strip(parts[k])], NonEmpty)

\* the special case of parentheses after "in"
RECURSIVE MergeIn(_, _, _)
MergeIn(sp, k, new_sp) ==
    IF k > Len(sp) THEN new_sp
    ELSE LET el   == sp[k]
             n    == Len(new_sp)
             last == new_sp[n]
         IN IF new_sp = <<>> THEN MergeIn(sp, k + 1, <<el>>)
            ELSE IF Len(last) > 3 /\ SubSeq(last, Len(last) - 2, Len(last)) = <<" ", "i", "n">>
                 THEN MergeIn(sp, k + 1, [new_sp EXCEPT ![n] = last \o <<" ">> \o el])
            ELSE IF contains(last, <<" ", "i", "n", " ">>) /\ last[Len(last)] # ")"
                 THEN MergeIn(sp, k + 1, [new_sp EXCEPT ![n] = last \o el])
            ELSE MergeIn(sp, k + 1, Append(new_sp, el))

\* a variant without the special case
new_sp_of_unmerged(value) == sp_of(value)

new_sp_of(value) == MergeIn(sp_of(value), 1, <<>>)

\* An element of idfied: the role, the text, and for a block <<the Block>>
Element(role, el, bl) == [role |-> role, el |-> el, bl |-> bl]

\* a variant that never finds an existing block
SameLogic_never(idfied, raw_logic) == <<>>

\* existing_blocks with the same raw_logic, in the order of idfied
SameLogic(idfied, raw_logic) ==
    SelectSeq(idfied, LAMBDA t : t.role = "block" /\ t.bl[1].raw_logic = raw_logic)

MsgBlock(i) == <<"Could not add block on index", str(i), <<>> >>

\* The loop that identifies the role of each element; i is the order number
\* of the next new block.
RECURSIVE Identify(_, _, _, _, _, _, _)
Identify(new_sp, k, idfied, i, errors, master_alias, site) ==
    IF k > Len(new_sp) THEN [idfied |-> idfied, errors |-> errors]
    ELSE LET el == new_sp[k]
             bl == Block(master_alias, site, i, el)
             eb == SameLogic(idfied, el)
         IN IF el = <<"(">>
            THEN Identify(new_sp, k + 1, Append(idfied, Element("open_par", el, <<>>)),
                          i, errors, master_alias, site)
            ELSE IF el = <<")">>
            THEN Identify(new_sp, k + 1, Append(idfied, Element("close_par", el, <<>>)),
                          i, errors, master_alias, site)
            ELSE IF el = kw_and \/ el = kw_or
            THEN Identify(new_sp, k + 1, Append(idfied, Element("andor", el, <<>>)),
                          i, errors, master_alias, site)
            ELSE IF el = kw_not
            THEN Identify(new_sp, k + 1, Append(idfied, Element("not", el, <<>>)),
                          i, errors, master_alias, site)
            ELSE IF bl.exc # "none"
            THEN Identify(new_sp, k + 1, idfied, i, add_error(errors, MsgBlock(i)),
                          master_alias, site)
            ELSE IF eb # <<>>
            THEN Identify(new_sp, k + 1, Append(idfied, eb[1]), i, errors,
                          master_alias, site)
            ELSE Identify(new_sp, k + 1, Append(idfied, Element("block", el, <<bl>>)),
                          i + 1, errors, master_alias, site)

allowed_first == {"open_par", "not", "block"}

allowed_pairs ==
    { <<"open_par", "open_par">>, <<"open_par", "not">>, <<"open_par", "block">>,
      <<"close_par", "close_par">>, <<"close_par", "andor">>,
      <<"andor", "open_par">>, <<"andor", "not">>, <<"andor", "block">>,
      <<"not", "open_par">>, <<"not", "block">>,
      <<"block", "close_par">>, <<"block", "andor">> }

allowed_last == {"close_par", "block"}

\* el[1] as it shows in a message: a Block prints with its alias
ElText(t) == IF t.role = "block" THEN t.bl[1].alias ELSE t.el

\* The messages of validate_order for the element at index i (1-based)
ValidateAt(tuples, i) ==
    LET last_i == Len(tuples)
        t      == tuples[i]
    IN (IF i = 1
        THEN (IF t.role \notin allowed_first
              THEN << <<"cannot be first element", ElText(t), <<>> >> >> ELSE <<>>)
        ELSE IF i = last_i
        THEN (IF t.role \notin allowed_last
              THEN << <<"cannot be last element", ElText(t), <<>> >> >> ELSE <<>>)
        ELSE <<>>)
       \o
       (IF i < last_i /\ <<t.role, tuples[i + 1].role>> \notin allowed_pairs
        THEN << <<"Cannot have before", ElText(t), ElText(tuples[i + 1])>> >>
        ELSE <<>>)

\* validate_order: the messages it adds, in order; errors_in_els is true
\* when there is one
validate_order(tuples) ==
    Flatten([i \in 1..Len(tuples) |-> ValidateAt(tuples, i)])

\* a < b for two strs, as Python compares them.  The aliases of one
\* Condition differ in their digits only, so only digits are ranked.
CharRank(c) == IF isdigit(c) THEN 1 + int(<<c>>) ELSE 0

RECURSIVE StrLess(_, _)
StrLess(a, b) ==
    IF b = <<>> THEN FALSE
    ELSE IF a = <<>> THEN TRUE
    ELSE IF CharRank(Head(a)) # CharRank(Head(b)) THEN CharRank(Head(a)) < CharRank(Head(b))
    ELSE StrLess(Tail(a), Tail(b))

\* sorted(blocks, key=lambda x: x.alias)
RECURSIVE InsertByAlias(_, _)
InsertByAlias(sorted, b) ==
    IF sorted = <<>> THEN <<b>>
    ELSE IF StrLess(b.alias, Head(sorted).alias) THEN <<b>> \o sorted
    ELSE <<Head(sorted)>> \o InsertByAlias(Tail(sorted), b)

RECURSIVE SortedByAlias(_)
SortedByAlias(blocks) ==
    IF blocks = <<>> THEN <<>>
    ELSE InsertByAlias(SortedByAlias(SubSeq(blocks, 1, Len(blocks) - 1)),
                       blocks[Len(blocks)])

\* all unique blocks in the order they appear
RECURSIVE UniqueBlocks(_, _, _)
UniqueBlocks(idfied, k, blocks) ==
    IF k > Len(idfied) THEN blocks
    ELSE IF /\ idfied[k].role = "block"
            /\ ~\E j \in 1..Len(blocks) : blocks[j] = idfied[k].bl[1]
         THEN UniqueBlocks(idfied, k + 1, Append(blocks, idfied[k].bl[1]))
    ELSE UniqueBlocks(idfied, k + 1, blocks)

\* a variant that leaves the not elements out of alias_condition
AliasPart_without_not(t) ==
    IF t.role = "andor" THEN <<" ">> \o t.el \o <<" ">>
    ELSE IF t.role = "not" THEN <<>>
    ELSE IF t.role = "block" THEN t.bl[1].alias
    ELSE t.el

\* the part of alias_condition that an element gives
AliasPart(t) ==
    IF t.role = "andor" THEN <<" ">> \o t.el \o <<" ">>
    ELSE IF t.role = "not" THEN t.el \o <<" ">>
    ELSE IF t.role = "block" THEN t.bl[1].alias
    ELSE t.el

alias_condition_of(idfied) == Flatten([k \in 1..Len(idfied) |-> AliasPart(idfied[k])])

MsgParens == <<"Should be as many ( as ) characters in the condition", <<>>, <<>> >>

MsgElements == <<"There were errors with condition elements", <<>>, <<>> >>

\* the errors after the counts of "(" and ")" are compared
ParenErrors(c) ==
    IF count(c.condition, <<"(">>) # count(c.condition, <<")">>)
    THEN add_error(c.errors, MsgParens) ELSE c.errors

\* a variant that takes a Condition for secondary when all of its blocks are
SetBlocks_all(c, blocks) ==
    [c EXCEPT !.blocks = blocks,
              !.secondary = IF blocks # <<>> /\ \A k \in 1..Len(blocks) : blocks[k].secondary = "True"
                            THEN "True" ELSE "False"]

\* .blocks, and .secondary: True if any of the blocks is secondary
SetBlocks(c, blocks) ==
    [c EXCEPT !.blocks = blocks,
              !.secondary = IF \E k \in 1..Len(blocks) : blocks[k].secondary = "True"
                            THEN "True" ELSE "False"]

\* the end of make_blocks: ident is the outcome of the loop over the elements
\* and order the errors that validate_order adds
SetAttrs(c, ident, order) ==
    IF order # <<>>
    THEN [c EXCEPT !.errors = add_error(add_errors(ident.errors, order), MsgElements)]
    ELSE SetBlocks([c EXCEPT !.errors = ident.errors,
                             !.alias_condition = alias_condition_of(ident.idfied),
                             !.condition_elements = ident.idfied],
                   SortedByAlias(UniqueBlocks(ident.idfied, 1, <<>>)))

ValidateAndSet(c, ident) == SetAttrs(c, ident, validate_order(ident.idfied))

\* a variant that gives the first block the order number 1
make_blocks_from_one(c) ==
    ValidateAndSet(c, Identify(new_sp_of(join_split(c.condition)), 1, <<>>, 1,
                               ParenErrors(c), c.master_alias, c.site))

\* make_blocks on a Condition c whose attributes __init__ has set so far.
\* Line 310 of the source reads "if has errors:"; it is taken as
\* "if has_errors:", the name that line 309 assigns.
make_blocks(c) ==
    ValidateAndSet(c, Identify(new_sp_of(join_split(c.condition)), 1, <<>>, 0,
                               ParenErrors(c), c.master_alias, c.site))

\* list_stations
list_stations(c) ==
    [c EXCEPT !.station_ids =
        {c.blocks[k].station_id : k \in {j \in 1..Len(c.blocks) : c.blocks[j].secondary # "True"}}]

\* Condition.__init__ up to the result attributes; exc is the exception
\* that ends the construction ("none" when the Condition is constructed)
\* A percentage is kept as the quotient it is computed from
Quotient(num, den) == [num |-> num, den |-> den]

\* Times are integers (a number of time units), durations their differences.
Condition(site, master_alias, raw_condition, time_range) ==
    LET s == to_pg_identifier(site)
        m == to_pg_identifier(master_alias)
        c == [ exc                 |-> "none",
               site                |-> s.val,
               master_alias        |-> m.val,
               id_string           |-> s.val \o <<"_">> \o m.val,
               condition           |-> eliminate_umlauts(lower(strip(raw_condition))),
               time_from           |-> time_range[1],
               time_until          |-> time_range[2],
               condition_elements  |-> <<>>,
               blocks              |-> <<>>,
               alias_condition     |-> <<>>,
               secondary           |-> "None",
               station_ids         |-> {},
               errors              |-> <<>>,
               has_view            |-> FALSE,
               data_from           |-> <<>>,
               data_until          |-> <<>>,
               main_df             |-> <<>>,
               n_rows              |-> 0,
               tottime             |-> time_range[2] - time_range[1],
               tottime_valid       |-> 0,
               tottime_notvalid    |-> 0,
               tottime_nodata      |-> time_range[2] - time_range[1],
               percentage_valid    |-> Quotient(0, 1),
               percentage_notvalid |-> Quotient(0, 1),
               percentage_nodata   |-> Quotient(1, 1) ]
    IN IF s.exc # "none" THEN [c EXCEPT !.exc = s.exc]
       ELSE IF m.exc # "none" THEN [c EXCEPT !.exc = m.exc]
       ELSE list_stations(make_blocks(c))

\* ------------------------------------------------------------------------
\* tsa/cond_collection.py: CondCollection.set_sensor_ids, for one Condition
\* ------------------------------------------------------------------------
\* Block.set_sensor_id: KeyError when the sensor name has no id
set_sensor_id(bl, nameids) ==
    IF bl.secondary = "False" /\ bl.sensor \in DOMAIN nameids
    THEN [bl EXCEPT !.sensor_id = nameids[bl.sensor]]
    ELSE bl

SensorMissing(bl, nameids) == bl.secondary = "False" /\ bl.sensor \notin DOMAIN nameids

MsgSensor(bl) == <<"Sensor not found in database", bl.alias, bl.sensor>>

RECURSIVE SensorErrors(_, _, _, _)
SensorErrors(blocks, k, nameids, errors) ==
    IF k > Len(blocks) THEN errors
    ELSE SensorErrors(blocks, k + 1, nameids,
                      IF SensorMissing(blocks[k], nameids)
                      THEN add_error(errors, MsgSensor(blocks[k])) ELSE errors)

\* The Block objects of .blocks are those of .condition_elements
set_sensor_ids(c, nameids) ==
    [c EXCEPT !.blocks = [k \in 1..Len(c.blocks) |-> set_sensor_id(c.blocks[k], nameids)],
              !.condition_elements =
                  [k \in 1..Len(c.condition_elements) |->
                      IF c.condition_elements[k].role = "block"
                      THEN [c.condition_elements[k] EXCEPT
                               !.bl = <<set_sensor_id(c.condition_elements[k].bl[1], nameids)>>]
                      ELSE c.condition_elements[k]],
              !.errors = SensorErrors(c.blocks, 1, nameids, c.errors)]

\* ------------------------------------------------------------------------
\* The SQL that Condition.create_db_temptable builds, as PostgreSQL runs it.
\* A block table is a sequence of rows [lo, hi, val]: the range valid_r =
\* [lo, hi) and the boolean column "t", "f" or "u" (NULL).
\* ------------------------------------------------------------------------
And3(a, b) ==
    IF a = "f" \/ b = "f" THEN "f" ELSE IF a = "u" \/ b = "u" THEN "u" ELSE "t"

Or3(a, b) ==
    IF a = "t" \/ b = "t" THEN "t" ELSE IF a = "u" \/ b = "u" THEN "u" ELSE "f"

Not3(a) == IF a = "t" THEN "f" ELSE IF a = "f" THEN "t" ELSE "u"

\* The lexer: parentheses, and words separated by spaces
RECURSIVE SqlTokensFrom(_, _, _)
SqlTokensFrom(x, i, cur) ==
    LET flush == IF cur = <<>> THEN <<>> ELSE <<cur>>
    IN IF i > Len(x) THEN flush
       ELSE IF x[i] = "(" \/ x[i] = ")" THEN flush \o << <<x[i]>> >> \o SqlTokensFrom(x, i + 1, <<>>)
       ELSE IF x[i] = " " THEN flush \o SqlTokensFrom(x, i + 1, <<>>)
       ELSE SqlTokensFrom(x, i + 1, Append(cur, x[i]))

SqlTokens(x) == SqlTokensFrom(x, 1, <<>>)

SqlFail == [ok |-> FALSE, v |-> "u", pos |-> 0]

SqlVal(v, pos) == [ok |-> TRUE, v |-> v, pos |-> pos]

\* the value of the column named tok in a row with the values vals of the
\* columns named by the block aliases
ColumnKnown(tok, blocks) == \E k \in 1..Len(blocks) : blocks[k].alias = tok

ColumnVal(tok, blocks, vals) == vals[CHOOSE k \in 1..Len(blocks) : blocks[k].alias = tok]

\* The boolean expression grammar with the precedence NOT > AND > OR
RECURSIVE SqlOr(_, _, _, _), SqlOrTail(_, _, _, _, _), SqlAnd(_, _, _, _),
          SqlAndTail(_, _, _, _, _), SqlNot(_, _, _, _), SqlPrimary(_, _, _, _)
SqlPrimary(t, p, blocks, vals) ==
    IF p > Len(t) THEN SqlFail
    ELSE IF t[p] = <<"(">>
    THEN LET r == SqlOr(t, p + 1, blocks, vals)
         IN IF r.ok /\ r.pos <= Len(t) /\ t[r.pos] = <<")">>
            THEN SqlVal(r.v, r.pos + 1) ELSE SqlFail
    ELSE IF ColumnKnown(t[p], blocks) THEN SqlVal(ColumnVal(t[p], blocks, vals), p + 1)
    ELSE SqlFail

SqlNot(t, p, blocks, vals) ==
    IF p <= Len(t) /\ t[p] = kw_not
    THEN LET r == SqlNot(t, p + 1, blocks, vals)
         IN IF r.ok THEN SqlVal(Not3(r.v), r.pos) ELSE SqlFail
    ELSE SqlPrimary(t, p, blocks, vals)

SqlAndTail(t, left, blocks, vals, dummy) ==
    IF left.ok /\ left.pos <= Len(t) /\ t[left.pos] = kw_and
    THEN LET r == SqlNot(t, left.pos + 1, blocks, vals)
         IN IF r.ok THEN SqlAndTail(t, SqlVal(And3(left.v, r.v), r.pos), blocks, vals, dummy)
            ELSE SqlFail
    ELSE left

SqlAnd(t, p, blocks, vals) == SqlAndTail(t, SqlNot(t, p, blocks, vals), blocks, vals, 0)

SqlOrTail(t, left, blocks, vals, dummy) ==
    IF left.ok /\ left.pos <= Len(t) /\ t[left.pos] = kw_or
    THEN LET r == SqlAnd(t, left.pos + 1, blocks, vals)
         IN IF r.ok THEN SqlOrTail(t, SqlVal(Or3(left.v, r.v), r.pos), blocks, vals, dummy)
            ELSE SqlFail
    ELSE left

SqlOr(t, p, blocks, vals) == SqlOrTail(t, SqlAnd(t, p, blocks, vals), blocks, vals, 0)

\* "({alias_condition}) AS master" for a row: ok is false on a syntax error
SqlMaster(alias_condition, blocks, vals) ==
    LET t == << <<"(">> >> \o SqlTokens(alias_condition) \o << <<")">> >>
        r == SqlOr(t, 1, blocks, vals)
    IN IF r.ok /\ r.pos = Len(t) + 1 THEN r ELSE SqlFail

NullVals(blocks) == [k \in 1..Len(blocks) |-> "u"]

\* the sorted sequence of a set of times
RECURSIVE SortedTimes(_)
SortedTimes(S) ==
    IF S = {} THEN <<>>
    ELSE LET m == CHOOSE x \in S : \A y \in S : x <= y
         IN <<m>> \o SortedTimes(S \ {m})

\* the lower and upper bounds of all rows of one block table, and of all
\* block tables
Bounds(table) == UNION {{table[j].lo, table[j].hi} : j \in 1..Len(table)}

BoundarySet(tables) == UNION {Bounds(tables[k]) : k \in 1..Len(tables)}

\* a variant with UNION ALL: every bound of every row, duplicates kept
master_seq_union_all(tables) ==
    LET all == Flatten([k \in 1..Len(tables) |->
                   Flatten([j \in 1..Len(tables[k]) |-> <<tables[k][j].lo, tables[k][j].hi>>])])
        before(i) == Cardinality({j \in 1..Len(all) :
                         all[j] < all[i] \/ (all[j] = all[i] /\ j < i)})
    IN [n \in 1..Len(all) |-> all[CHOOSE i \in 1..Len(all) : before(i) = n - 1]]

\* master_seq: SELECT unnest(array[lower(valid_r), upper(valid_r)]) of every
\* block table, UNION (duplicates removed), ORDER BY vt
master_seq(tables) == SortedTimes(BoundarySet(tables))

\* master_ranges: every vt with the next one (LEAD), the last one dropped
master_ranges(tables) ==
    LET seq == master_seq(tables)
    IN [i \in 1..(Len(seq) - 1) |-> [lo |-> seq[i], hi |-> seq[i + 1]]]

\* r1 && r2 for two ranges that are not empty
Overlaps(r1, r2) == r1.lo < r2.hi /\ r2.lo < r1.hi

\* a variant with an inner JOIN: no row when no row of the table overlaps
LeftJoin_inner(range, table) ==
    LET ms == SelectSeq(table, LAMBDA row : Overlaps(range, row))
    IN [j \in 1..Len(ms) |-> ms[j].val]

\* LEFT JOIN of one range with a block table: the values of the rows that
\* overlap the range, NULL when there is none
LeftJoin(range, table) ==
    LET ms == SelectSeq(table, LAMBDA row : Overlaps(range, row))
    IN IF ms = <<>> THEN <<"u">> ELSE [j \in 1..Len(ms) |-> ms[j].val]

\* the rows of the chain of LEFT JOINs for one range: one row of block
\* values for every combination of matching rows of the tables k..
RECURSIVE JoinVals(_, _, _)
JoinVals(range, tables, k) ==
    IF k > Len(tables) THEN << <<>> >>
    ELSE LET ms   == LeftJoin(range, tables[k])
             rest == JoinVals(range, tables, k + 1)
         IN Flatten([i \in 1..Len(ms) |-> [j \in 1..Len(rest) |-> <<ms[i]>> \o rest[j]]])

ResultRow(lo, hi, vals, master) ==
    [vfrom |-> lo, vuntil |-> hi, vdiff |-> hi - lo, vals |-> vals, master |-> master]

\* CREATE TEMP TABLE {id_string} for one block: the rows of the block table
SingleBlockRows(tables) ==
    [j \in 1..Len(tables[1]) |->
        ResultRow(tables[1][j].lo, tables[1][j].hi, <<tables[1][j].val>>, tables[1][j].val)]

\* CREATE TEMP TABLE {id_string} for several blocks.  The join condition
\* && leaves PostgreSQL the nested loop over master_ranges, so the rows come
\* in the order of master_ranges.
MultiBlockRows(c, tables) ==
    LET ranges == master_ranges(tables)
    IN Flatten([i \in 1..Len(ranges) |->
           LET jv == JoinVals(ranges[i], tables, 1)
           IN [j \in 1..Len(jv) |->
                  ResultRow(ranges[i].lo, ranges[i].hi, jv[j],
                            SqlMaster(c.alias_condition, c.blocks, jv[j]).v)]])

\* the relations that exist in the database besides the Condition's own
ExistingViews == { <<"p", "1", "_", "a", "1">>, <<"p", "1", "_", "b", "1">> }

BaseRelations == DISABLED_IDENTIFIERS

\* Block.get_sql_def raises for a primary block without a sensor id
SqlDefRaises(bl) == bl.secondary = "None" \/ (bl.secondary = "False" /\ bl.sensor_id = None)

\* cur.execute(create_sql) raises: a source view that does not exist, or a
\* master expression that is no SQL expression
ExecuteFails(c) ==
    \/ \E k \in 1..Len(c.blocks) :
           c.blocks[k].secondary = "True" /\ c.blocks[k].source_view \notin ExistingViews
    \/ Len(c.blocks) > 1 /\ ~SqlMaster(c.alias_condition, c.blocks, NullVals(c.blocks)).ok

MsgNoBlocks == <<"No Blocks to make a database table from, skipping", <<>>, <<>> >>

MsgReserved == <<"Cannot use as Condition identifier", <<>>, <<>> >>

MsgNoConn == <<"No db connection, cannot create db temp table", <<>>, <<>> >>

MsgCreate == <<"Could not create db temp table", <<>>, <<>> >>

create_db_temptable_unguarded(c, pg_conn, tables) ==
    LET none(cc) == [c |-> cc, created |-> FALSE, rows |-> <<>>]
    IN IF Len(c.blocks) = 0 THEN none([c EXCEPT !.errors = add_error(c.errors, MsgNoBlocks)])
       ELSE IF \E k \in 1..Len(c.blocks) : SqlDefRaises(c.blocks[k]) THEN none(c)
       ELSE IF ~pg_conn THEN none([c EXCEPT !.errors = add_error(c.errors, MsgNoConn)])
       ELSE IF ExecuteFails(c) THEN none([c EXCEPT !.errors = add_error(c.errors, MsgCreate)])
       ELSE [c       |-> [c EXCEPT !.has_view = TRUE],
             created |-> TRUE,
             rows    |-> IF Len(c.blocks) = 1 THEN SingleBlockRows(tables)
                         ELSE MultiBlockRows(c, tables)]

\* The outcome of create_db_temptable(pg_conn) with the block tables that
\* the database makes of the block definitions: the Condition afterwards,
\* created = the temp table exists, rows = its rows
create_db_temptable(c, pg_conn, tables) ==
    LET none(cc) == [c |-> cc, created |-> FALSE, rows |-> <<>>]
    IN IF Len(c.blocks) = 0 THEN none([c EXCEPT !.errors = add_error(c.errors, MsgNoBlocks)])
       ELSE IF c.id_string \in BaseRelations
       THEN none([c EXCEPT !.errors = add_error(c.errors, MsgReserved)])
       ELSE IF \E k \in 1..Len(c.blocks) : SqlDefRaises(c.blocks[k]) THEN none(c)
       ELSE IF ~pg_conn THEN none([c EXCEPT !.errors = add_error(c.errors, MsgNoConn)])
       ELSE IF ExecuteFails(c) THEN none([c EXCEPT !.errors = add_error(c.errors, MsgCreate)])
       ELSE [c       |-> [c EXCEPT !.has_view = TRUE],
             created |-> TRUE,
             rows    |-> IF Len(c.blocks) = 1 THEN SingleBlockRows(tables)
                         ELSE MultiBlockRows(c, tables)]

\* ------------------------------------------------------------------------
\* Condition.fetch_results_from_db and Condition.set_summary_attrs
\* ------------------------------------------------------------------------
\* the sum of the vdiff of the rows whose master is m
RECURSIVE SumVdiff(_, _)
SumVdiff(df, m) ==
    IF df = <<>> THEN 0
    ELSE (IF Head(df).master = m THEN Head(df).vdiff ELSE 0) + SumVdiff(Tail(df), m)

\* min() and max() of a column that is not empty
MinOf(S) == CHOOSE x \in S : \A y \in S : x <= y

MaxOf(S) == CHOOSE x \in S : \A y \in S : x >= y

\* the total time of an empty result: min() and max() of an empty column
\* are NaN, and so is their difference
NaN == -1

\* set_summary_attrs with main_df set.  With the total time NaN the
\* subtraction of a timedelta raises, after n_rows and the two sums are set.
set_summary_attrs(c) ==
    LET df       == c.main_df[1]
        valid    == SumVdiff(df, "t")
        notvalid == SumVdiff(df, "f")
        nodata   == c.tottime - valid - notvalid
        c1       == [c EXCEPT !.n_rows = Len(df),
                              !.tottime_valid = valid,
                              !.tottime_notvalid = notvalid]
    IN IF c.main_df = <<>> THEN c
       ELSE IF c.tottime = NaN THEN c1
       ELSE [c1 EXCEPT !.tottime_nodata = nodata,
                       !.percentage_valid = Quotient(valid, c.tottime),
                       !.percentage_notvalid = Quotient(notvalid, c.tottime),
                       !.percentage_nodata = Quotient(nodata, c.tottime)]

\* main_df['vfrom'].min() and main_df['vuntil'].max()
data_from_of(df) == IF df = <<>> THEN NaN ELSE MinOf({df[j].vfrom : j \in 1..Len(df)})

\* a variant that takes the earliest start for the end of the data
data_until_of_vfrom(df) == IF df = <<>> THEN NaN ELSE MinOf({df[j].vfrom : j \in 1..Len(df)})

data_until_of(df) == IF df = <<>> THEN NaN ELSE MaxOf({df[j].vuntil : j \in 1..Len(df)})

\* a variant that takes the summed durations of the rows for the total time
tottime_of_rows(df) ==
    IF df = <<>> THEN NaN
    ELSE SumVdiff(df, "t") + SumVdiff(df, "f") + SumVdiff(df, "u")

\* data_until - data_from
tottime_of(df) == IF df = <<>> THEN NaN ELSE data_until_of(df) - data_from_of(df)

MsgNoConnFetch == <<"No database connection, cannot fetch results", <<>>, <<>> >>

MsgNoTable == <<"No temp table for this condition in database", <<>>, <<>> >>

\* fetch_results_from_db(pg_conn) with rows = the rows of the temp table
fetch_results_from_db(c, pg_conn, rows) ==
    IF ~pg_conn THEN [c EXCEPT !.errors = add_error(c.errors, MsgNoConnFetch)]
    ELSE IF ~c.has_view THEN [c EXCEPT !.errors = add_error(c.errors, MsgNoTable)]
    ELSE set_summary_attrs([c EXCEPT !.main_df = <<rows>>,
                                     !.data_from = <<data_from_of(rows)>>,
                                     !.data_until = <<data_until_of(rows)>>,
                                     !.tottime = tottime_of(rows)])

\* ------------------------------------------------------------------------
\* tsa/cond_collection.py: CondCollection
\* ------------------------------------------------------------------------
\* A datetime is its number of seconds; a day has DaySecs of them
DaySecs == 86400

\* datetime.replace(hour=0, minute=0, second=0)
AtMidnight(t) == t - (t % DaySecs)

\* datetime.replace(hour=23, minute=59, second=59)
AtDayEnd(t) == t - (t % DaySecs) + (DaySecs - 1)

\* set_default_times
set_default_times(cc) ==
    [cc EXCEPT !.time_from = AtMidnight(cc.time_from),
               !.time_until = AtDayEnd(cc.time_until)]

\* The attributes of a CondCollection before __init__ assigns them
NoCollection ==
    [ exc               |-> "none",
      time_from         |-> None,
      time_until        |-> None,
      time_range        |-> <<>>,
      conditions        |-> <<>>,
      station_ids       |-> {},
      id_strings        |-> {},
      statids_available |-> None,
      temptables        |-> <<>> ]

\* lines 47 - 63 of __init__
SetCollAttrs(cc) == [cc EXCEPT !.time_range = <<cc.time_from, cc.time_until>>]

\* CondCollection.__init__ for two datetimes: exc is the exception that ends
\* the construction.  Line 65 calls TsaErrCollection, a name that the module
\* neither defines nor imports (tsa/error.py defines it, cond_collection.py
\* imports only Condition and three functions of utils), so that the
\* construction ends there with a NameError for every pair of datetimes that
\* passes the assertion of line 46.
CondCollection(time_from, time_until) ==
    IF ~(time_from <= time_until) THEN [NoCollection EXCEPT !.exc = "AssertionError"]
    ELSE [SetCollAttrs(set_default_times([NoCollection EXCEPT !.time_from = time_from,
                                                               !.time_until = time_until]))
             EXCEPT !.exc = "NameError"]

\* add_condition, with add_station for every station id of the candidate
\* (statids_available is None when conditions are added).  An exception of Condition() and the ValueError of a
\* reserved id are caught at line 179; the handler calls self.add_error, and
\* CondCollection has no attribute of that name: the call ends with an
\* AttributeError that add_condition does not catch.
AddCandidate(cc, candidate) ==
    IF candidate.exc # "none" \/ candidate.id_string \in cc.id_strings
    THEN [cc EXCEPT !.exc = "AttributeError"]
    ELSE [cc EXCEPT !.conditions = Append(cc.conditions, candidate),
                    !.id_strings = cc.id_strings \cup {candidate.id_string},
                    !.station_ids = cc.station_ids \cup candidate.station_ids]

add_condition(cc, site, master_alias, raw_condition) ==
    AddCandidate(cc, Condition(site, master_alias, raw_condition, cc.time_range))

\* A row of a worksheet is <<site, master_alias, raw_condition>>, the values
\* of its cells A, B and C; the value of an empty cell is None
HasEmptyCell(row) == \E j \in 1..3 : row[j] = None

\* the loop of from_xlsx_sheet over the rows from row 4 on; an exception of
\* add_condition ends it
RECURSIVE AddRows(_, _, _)
AddRows(cc, rws, k) ==
    IF k > Len(rws) \/ cc.exc # "none" THEN cc
    ELSE AddRows(IF HasEmptyCell(rws[k]) THEN cc
                 ELSE add_condition(cc, rws[k][1], rws[k][2], rws[k][3]),
                 rws, k + 1)

\* lines 548 - 551: cells is not bound when the worksheet has no row from
\* row 4 on, and an empty cell above the last row is reported with add_error
ReportEmptyCells(cc, rws) ==
    IF cc.exc # "none" THEN cc
    ELSE IF rws = <<>> THEN [cc EXCEPT !.exc = "UnboundLocalError"]
    ELSE IF \E k \in 1..(Len(rws) - 1) : HasEmptyCell(rws[k])
         THEN [cc EXCEPT !.exc = "AttributeError"]
    ELSE cc

\* CondCollection.from_xlsx_sheet(ws) for a worksheet whose cells A2 and B2
\* hold the datetimes time_from and time_until.  An exception of the
\* constructor is not caught, and no collection is returned then.
ReadRows(cc, rws) ==
    IF cc.exc # "none" THEN cc ELSE ReportEmptyCells(AddRows(cc, rws, 1), rws)

from_xlsx_sheet(time_from, time_until, rws) ==
    IF time_from > time_until THEN [NoCollection EXCEPT !.exc = "Exception"]
    ELSE ReadRows(CondCollection(time_from, time_until), rws)

\* CondCollection.setup_obs_view(pg_conn): pg_conn is None or a connection,
\* and a connection is true.  views are the temporary views of the session,
\* execute_ok tells whether cur.execute succeeds.  CondCollection has no
\* method add_error, and None has no attribute cursor.
PgConns == {"None", "conn"}

ViewOutcome(exc, views, warned) == [exc |-> exc, views |-> views, warned |-> warned]

setup_obs_view(cc, pg_conn, views, execute_ok) ==
    IF pg_conn # "None"
    THEN ViewOutcome("AttributeError", views, FALSE)      \* if pg_conn: self.add_error(...)
    ELSE IF pg_conn = "None"
    THEN ViewOutcome("AttributeError", views, FALSE)      \* with pg_conn.cursor()
    ELSE IF execute_ok
    THEN ViewOutcome("none", views \cup {"obs_main"}, FALSE)
    ELSE ViewOutcome("AttributeError", views, FALSE)      \* except: self.add_error(e)

\* ------------------------------------------------------------------------
\* tsa/error.py: TsaError and TsaErrCollection
\* ------------------------------------------------------------------------
\* TsaError(msg, context, log_add): log_add selects the logging call only;
\* the timestamp is used for sorting only and is left out
TsaError(msg, context, log_add) == [msg |-> msg, context |-> context, n_more |-> 0]

\* TsaError.__eq__ returns the tuple (self.msg, self.context == other.msg,
\* other.context); `in` and list.index take its truth value, and a tuple of
\* three elements is true
TsaError_eq(self, other) == <<self.msg, self.context = other.msg, other.context>> # <<>>

\* TsaErrCollection(context)
TsaErrCollection(context) == [context |-> context, errors |-> <<>>]

\* e in errors
ErrorIn(e, errors) == \E k \in 1..Len(errors) : TsaError_eq(errors[k], e)

\* errors.index(e), 1-based
ErrorIndex(e, errors) ==
    CHOOSE k \in 1..Len(errors) :
        /\ TsaError_eq(errors[k], e)
        /\ \A j \in 1..(k - 1) : ~TsaError_eq(errors[j], e)

\* TsaErrCollection.add(msg, log_add)
TsaErrCollection_add(ec, msg, log_add) ==
    LET e == TsaError(msg, ec.context, log_add)
    IN IF ErrorIn(e, ec.errors)
       THEN [ec EXCEPT !.errors[ErrorIndex(e, ec.errors)].n_more = @ + 1]
       ELSE [ec EXCEPT !.errors = Append(@, e)]

\* ------------------------------------------------------------------------
\* State
\* ------------------------------------------------------------------------
VARIABLES
    leaf,   \* raw_logic handed to Block()
    blk,    \* <<>> before Block() is called, then <<the attributes at its end>>
    raw,    \* raw_condition handed to Condition()
    cnd,    \* <<>> before Condition() is called, then <<the Condition>>
    pc,     \* how far the analysis of the Condition has come
    store,  \* the block tables the database made when the temp table was created
    table,  \* <<>>, or <<the rows of the temp table of the Condition>>
    win,    \* <<time_from, time_until>>: the time range handed to Condition(),
            \* the dates of the cells A2 and B2 of a worksheet
    ws_rows, \* the rows of a worksheet from row 4 on: the cells A, B and C of each
    coll,   \* <<>> before the worksheet is read, then <<the outcome of reading it>>
    expr,   \* the tokens that raw was written from, <<>> when it was not
    name,   \* the str handed to to_pg_identifier
    pgid,   \* <<>> before to_pg_identifier is called, then <<the outcome of the call>>
    site_alias, \* <<site, master_alias>> handed to Condition()
    errs,   \* <<>>, or <<a TsaErrCollection>>
    added,  \* the messages handed to TsaErrCollection.add so far, in order
    setup   \* <<>>, or <<the connection handed to setup_obs_view and the outcome of the call>>

vars == <<leaf, blk, raw, cnd, pc, store, table, win, ws_rows, coll, expr, name, pgid, site_alias, errs, added, setup>>

\* All strs made of at most n pieces of the set S
Pieces(S, n) == {Flatten(q) : q \in UNION {[1..k -> S] : k \in 0..n}}

\* ------------------------------------------------------------------------
\* Block construction on its own
\* ------------------------------------------------------------------------
MaxLeafPieces == 3

LeafPieces ==
    { <<"s", "1", "#", "x">>, <<"d", "1">>, <<"#">>, <<" ", ">", " ">>,
      <<" ", "i", "n", " ">>, <<">", " ">>, <<"1">>, <<"(", "1">>, <<"2", ")">>,
      <<" ">> }

BlkMaster == <<"d", "2">>

BlkSite == <<"p", "1">>

InitBlock ==
    /\ leaf \in Pieces(LeafPieces, MaxLeafPieces)
    /\ blk = <<>>
    /\ raw = <<>>
    /\ cnd = <<>>
    /\ pc = "idle"
    /\ store = <<>>
    /\ table = <<>>
    /\ win = <<>>
    /\ ws_rows = <<>>
    /\ coll = <<>>
    /\ expr = <<>>
    /\ name = <<>>
    /\ pgid = <<>>
    /\ site_alias = <<>>
    /\ errs = <<>>
    /\ added = <<>>
    /\ setup = <<>>

\* Block(master_alias, parent_site, order_nr, raw_logic)
BlockInit ==
    /\ blk = <<>>
    /\ blk' = <<Block(BlkMaster, BlkSite, 0, leaf)>>
    /\ UNCHANGED <<leaf, raw, cnd, pc, store, table, win, ws_rows, coll, expr, name, pgid, site_alias, errs, added, setup>>

NextBlock == BlockInit

SpecBlock == InitBlock /\ [][NextBlock]_vars

\* ------------------------------------------------------------------------
\* Condition construction on its own
\* ------------------------------------------------------------------------
MaxCondPieces == 3

CondPieces ==
    { <<"(">>, <<")">>, <<" ", "a", "n", "d", " ">>, <<" ", "o", "r", " ">>,
      <<"n", "o", "t", " ">>, <<"a", "1">>, <<"Ä", "1">>,
      <<"s", "1", "#", "x", " ", ">", " ", "1">>,
      <<"s", "1", "#", "x", " ", "i", "n", " ">>, <<"1">>, <<" ">> }

\* Longer conditions: operators written without spaces between parentheses,
\* a leaf repeated next to another leaf, a tuple after "in" inside a longer
\* expression, the example of the Condition docstring (shortened sensor
\* names), a leaf twice before another leaf, eleven leaves, and parentheses
\* that close before they open
ExtraConds ==
    { <<"s", "1", "#", "x", " ", ">", " ", "1", ")", " ", "a", "n", "d", " ", "(", "s", "2", "#", "x", " ", ">", " ", "1">>,
      <<"a", "1", ")", " ", "a", "n", "d", " ", "(", "b", "1">>,
      <<"a", "1", " ", "a", "n", "d", " ", "a", "1", " ", "o", "r", " ", "b", "1">>,
      <<"a", "1", " ", "o", "r", " ", "a", "2", " ", "o", "r", " ", "a", "3", " ", "o", "r", " ", "a", "4", " ", "o", "r", " ", "a", "5", " ", "o", "r", " ", "a", "6", " ", "o", "r", " ", "a", "7", " ", "o", "r", " ", "a", "8", " ", "o", "r", " ", "a", "9", " ", "o", "r", " ", "b", "1", " ", "o", "r", " ", "b", "2">>,
      <<"(", "a", "1", ")", "o", "r", "(", "b", "1", ")">>,
      <<"a", "1", " ", "a", "n", "d", " ", "(", "b", "1", " ", "o", "r", " ", "A", "1", ")">>,
      <<"(", "a", "1", ")", "a", "n", "d", " ", "n", "o", "t", "(", "b", "1", ")">>,
      <<"s", "1", "#", "x", " ", "i", "n", " ", "(", " ", "1", ",", " ", "2", " ", ")",
        " ", "a", "n", "d", " ", "a", "1">>,
      <<"(", "s", "1", "#", "t", " ", "=", " ", "8", " ", "O", "R", " ", "(",
        "s", "1", "#", "k", " ", ">", "=", " ", "0", ".", "3", " ", "A", "N", "D", " ",
        "s", "1", "#", "k", " ", "<", " ", "0", ".", "4", ")", ")", " ", "A", "N", "D", " ",
        "s", "2", "#", "t", " ", "<", " ", "2">> }

\* the grammar table of the claim: what may follow a role
MayFollow(role) ==
    CASE role = "open_par"  -> {"open_par", "not", "block"}
      [] role = "close_par" -> {"close_par", "andor"}
      [] role = "andor"     -> {"open_par", "not", "block"}
      [] role = "not"       -> {"open_par", "block"}
      [] role = "block"     -> {"close_par", "andor"}

InGrammar(roles) ==
    /\ roles[1] \in {"open_par", "not", "block"}
    /\ roles[Len(roles)] \in {"close_par", "block"}
    /\ \A k \in 1..(Len(roles) - 1) : roles[k + 1] \in MayFollow(roles[k])

\* Expressions of the grammar as lists of tokens: parentheses, keywords, a
\* leaf with a tuple after "in" and a leaf without one, at most MaxTokens
\* tokens
MaxTokens == 4

TupleLeaf == <<"s", "1", "#", "x", " ", "i", "n", " ", "(", "1", ",", " ", "2", ")">>

PlainLeaf == <<"a", "1">>

ExprTokens == { <<"(">>, <<")">>, kw_and, kw_or, kw_not, TupleLeaf, PlainLeaf }

RoleOfToken(t) ==
    IF t = <<"(">> THEN "open_par"
    ELSE IF t = <<")">> THEN "close_par"
    ELSE IF t \in {kw_and, kw_or} THEN "andor"
    ELSE IF t = kw_not THEN "not"
    ELSE "block"

\* the number of parentheses that are open after the first k tokens
RECURSIVE Depth(_, _)
Depth(toks, k) ==
    IF k = 0 THEN 0
    ELSE Depth(toks, k - 1) + (IF toks[k] = <<"(">> THEN 1
                               ELSE IF toks[k] = <<")">> THEN -1 ELSE 0)

IsExpr(toks) ==
    /\ InGrammar([k \in 1..Len(toks) |-> RoleOfToken(toks[k])])
    /\ \A k \in 1..Len(toks) : Depth(toks, k) >= 0
    /\ Depth(toks, Len(toks)) = 0
    /\ \E k \in 1..Len(toks) : toks[k] = TupleLeaf

TupleExprs == { toks \in UNION {[1..n -> ExprTokens] : n \in 1..MaxTokens} : IsExpr(toks) }

\* the tokens written with one space between them
RECURSIVE Spaced(_)
Spaced(toks) ==
    IF Len(toks) = 1 THEN toks[1] ELSE toks[1] \o <<" ">> \o Spaced(Tail(toks))

\* the tokens written without a space next to a parenthesis
RECURSIVE Tight(_)
Tight(toks) ==
    IF Len(toks) = 1 THEN toks[1]
    ELSE IF toks[1] \in {<<"(">>, <<")">>} \/ toks[2] \in {<<"(">>, <<")">>}
    THEN toks[1] \o Tight(Tail(toks))
    ELSE toks[1] \o <<" ">> \o Tight(Tail(toks))

CndSite == <<"p", "1">>

CndMaster == <<"e">>

\* the analysis window [time_from, time_until) is [0, MaxTime)
MaxTime == 3

CndTimeRange == <<0, MaxTime>>

InitParse ==
    /\ \/ expr = <<>> /\ raw \in Pieces(CondPieces, MaxCondPieces) \cup ExtraConds
       \/ expr \in TupleExprs /\ raw \in {Spaced(expr), Tight(expr)}
    /\ cnd = <<>>
    /\ leaf = <<>>
    /\ blk = <<>>
    /\ pc = "new"
    /\ store = <<>>
    /\ table = <<>>
    /\ win = CndTimeRange
    /\ ws_rows = <<>>
    /\ coll = <<>>
    /\ name = <<>>
    /\ pgid = <<>>
    /\ site_alias = <<CndSite, CndMaster>>
    /\ errs = <<>>
    /\ added = <<>>
    /\ setup = <<>>

\* Condition(site, master_alias, raw_condition, time_range)
ConditionInit ==
    /\ pc = "new"
    /\ cnd' = <<Condition(site_alias[1], site_alias[2], raw, win)>>
    /\ pc' = "built"
    /\ UNCHANGED <<leaf, blk, raw, store, table, win, ws_rows, coll, expr, name, pgid, site_alias, errs, added, setup>>

NextParse == ConditionInit

SpecParse == InitParse /\ [][NextParse]_vars

\* ------------------------------------------------------------------------
\* The analysis of one Condition: construction, sensor ids, temp table,
\* results
\* ------------------------------------------------------------------------
\* One or two blocks, with and without not, parentheses that do not nest,
\* that do not balance, a sensor and a source view that do not exist, and a
\* condition without blocks
EvalConds ==
    { <<"s", "1", "#", "x", " ", ">", " ", "1">>,
      <<"n", "o", "t", " ", "s", "1", "#", "x", " ", ">", " ", "1">>,
      <<"s", "1", "#", "x", " ", ">", " ", "1", " ", "a", "n", "d", " ", "s", "2", "#", "x", " ", ">", " ", "1">>,
      <<"n", "o", "t", " ", "s", "1", "#", "x", " ", ">", " ", "1", " ", "o", "r", " ", "s", "2", "#", "x", " ", ">", " ", "1">>,
      <<"a", "1", " ", "a", "n", "d", " ", "(", "s", "1", "#", "x", " ", ">", " ", "1", ")">>,
      <<"s", "1", "#", "x", " ", ">", " ", "1", ")", " ", "o", "r", " ", "(", "s", "1", "#", "x", " ", ">", " ", "1">>,
      <<"(", "s", "1", "#", "x", " ", ">", " ", "1", " ", "a", "n", "d", " ", "s", "2", "#", "x", " ", ">", " ", "1">>,
      <<"s", "1", "#", "y", " ", ">", " ", "1">>,
      <<"c", "1">>,
      <<"a", "1">>,
      <<"(", "s", "1", "#", "x", " ", ">", " ", "1">>,
      <<"n", "o", "t">> }

\* sensor name - id pairs of the database
SensorIds == [n \in { <<"x">> } |-> <<"7">>]

\* The rows that a block table can have in the window: ranges [lo, hi) that
\* do not overlap, in time order, with their values
RECURSIVE RowsFrom(_, _)
RowsFrom(p, V) ==
    IF p >= MaxTime THEN { <<>> }
    ELSE RowsFrom(p + 1, V) \cup
         UNION { { << [lo |-> p, hi |-> q, val |-> v] >> \o r : r \in RowsFrom(q, V) } :
                    q \in (p + 1)..MaxTime, v \in V }

\* A primary block gets the ranges of pack_ranges with true or false, a
\* secondary block the rows of its source view, whose master can be NULL
BlockTables(bl) ==
    IF bl.secondary = "True" THEN RowsFrom(0, {"t", "f", "u"}) ELSE RowsFrom(0, {"t", "f"})

RECURSIVE TablesFor(_, _)
TablesFor(blocks, k) ==
    IF k > Len(blocks) THEN { <<>> }
    ELSE { <<r>> \o rest : r \in BlockTables(blocks[k]), rest \in TablesFor(blocks, k + 1) }

\* The time ranges handed to Condition(): the analysis window, and for the
\* Condition of one primary block also a time range of length zero
EvalWindows(raw_condition) ==
    IF raw_condition = <<"s", "1", "#", "x", " ", ">", " ", "1">>
    THEN {CndTimeRange, <<1, 1>>} ELSE {CndTimeRange}

InitEval ==
    /\ raw \in EvalConds
    /\ cnd = <<>>
    /\ leaf = <<>>
    /\ blk = <<>>
    /\ pc = "new"
    /\ store = <<>>
    /\ table = <<>>
    /\ win \in EvalWindows(raw)
    /\ ws_rows = <<>>
    /\ coll = <<>>
    /\ expr = <<>>
    /\ name = <<>>
    /\ pgid = <<>>
    /\ site_alias = <<CndSite, CndMaster>>
    /\ errs = <<>>
    /\ added = <<>>
    /\ setup = <<>>

\* CondCollection.set_sensor_ids(pairs=...)
SetSensorIds ==
    /\ pc = "built"
    /\ cnd' = <<set_sensor_ids(cnd[1], SensorIds)>>
    /\ pc' = "ids"
    /\ UNCHANGED <<leaf, blk, raw, store, table, win, ws_rows, coll, expr, name, pgid, site_alias, errs, added, setup>>

\* The block tables that the database can make for a call of
\* create_db_temptable: whether the temp table is created does not depend on
\* their rows, so one choice of tables stands for all when it is not created
TablesTried(c, pg_conn) ==
    LET one == CHOOSE tables \in TablesFor(c.blocks, 1) : TRUE
    IN IF create_db_temptable(c, pg_conn, one).created THEN TablesFor(c.blocks, 1) ELSE {one}

\* Condition.create_db_temptable(pg_conn)
CreateDbTemptable ==
    /\ pc \in {"built", "ids"}
    /\ cnd[1].exc = "none"
    /\ \E pg_conn \in BOOLEAN : \E tables \in TablesTried(cnd[1], pg_conn) :
           \E out \in {create_db_temptable(cnd[1], pg_conn, tables)} :
               /\ cnd' = <<out.c>>
               /\ table' = IF out.created THEN <<out.rows>> ELSE <<>>
               /\ store' = IF out.created THEN tables ELSE <<>>
    /\ pc' = "created"
    /\ UNCHANGED <<leaf, blk, raw, win, ws_rows, coll, expr, name, pgid, site_alias, errs, added, setup>>

\* Condition.fetch_results_from_db(pg_conn)
FetchResults ==
    /\ pc \in {"built", "ids", "created"}
    /\ cnd[1].exc = "none"
    /\ \E pg_conn \in BOOLEAN :
           cnd' = <<fetch_results_from_db(cnd[1], pg_conn,
                                          IF table = <<>> THEN <<>> ELSE table[1])>>
    /\ pc' = "fetched"
    /\ UNCHANGED <<leaf, blk, raw, store, table, win, ws_rows, coll, expr, name, pgid, site_alias, errs, added, setup>>

NextEval == ConditionInit \/ SetSensorIds \/ CreateDbTemptable \/ FetchResults

SpecEval == InitEval /\ [][NextEval]_vars

\* ------------------------------------------------------------------------
\* A collection read from a worksheet
\* ------------------------------------------------------------------------
\* the dates of the cells A2 and B2 are on the days 0..MaxDay
MaxDay == 1

\* at midnight, one second after it and one second before the next
SheetTimes == { d * DaySecs + sec : d \in 0..MaxDay, sec \in {0, 1, DaySecs - 1} }

\* a worksheet has at most MaxRows rows from row 4 on
MaxRows == 2

\* A row with a primary block, a row with the same site and master alias,
\* a row whose parentheses do not balance, a row whose site is not an
\* identifier, a row with a secondary block that names the first row, a
\* row with an empty cell, and two rows whose sites and master aliases
\* differ and have an underscore at different places
SheetRows ==
    { << <<"a", "_", "b">>, <<"c">>, <<"s", "1", "#", "x", " ", ">", " ", "1">> >>,
      << <<"a">>, <<"b", "_", "c">>, <<"s", "1", "#", "x", " ", ">", " ", "1">> >>,
      << <<"p", "1">>, <<"e">>, <<"s", "1", "#", "x", " ", ">", " ", "1">> >>,
      << <<"P", "1">>, <<"E">>, <<"s", "2", "#", "x", " ", ">", " ", "1">> >>,
      << <<"p", "1">>, <<"f">>, <<"(", "s", "1", "#", "x", " ", ">", " ", "1">> >>,
      << <<"1", "p">>, <<"g">>, <<"s", "1", "#", "x", " ", ">", " ", "1">> >>,
      << <<"p", "1">>, <<"h">>, <<"p", "1", "#", "e">> >>,
      << <<"p", "1">>, None, <<"s", "1", "#", "x", " ", ">", " ", "1">> >> }

InitSheet ==
    /\ win \in SheetTimes \X SheetTimes
    /\ ws_rows \in UNION {[1..n -> SheetRows] : n \in 0..MaxRows}
    /\ coll = <<>>
    /\ expr = <<>>
    /\ leaf = <<>>
    /\ blk = <<>>
    /\ raw = <<>>
    /\ cnd = <<>>
    /\ pc = "idle"
    /\ store = <<>>
    /\ table = <<>>
    /\ name = <<>>
    /\ pgid = <<>>
    /\ site_alias = <<>>
    /\ errs = <<>>
    /\ added = <<>>
    /\ setup = <<>>

\* CondCollection.from_xlsx_sheet(ws)
FromXlsxSheet ==
    /\ coll = <<>>
    /\ coll' = <<from_xlsx_sheet(win[1], win[2], ws_rows)>>
    /\ UNCHANGED <<leaf, blk, raw, cnd, pc, store, table, win, ws_rows, expr, name, pgid, site_alias, errs, added, setup>>

\* The statement that follows the read, coll.setup_obs_view(pg_conn), in a
\* session without temporary views: when from_xlsx_sheet raised there is no
\* collection, the statement is not reached and the exception goes on
SetupObsView ==
    /\ coll # <<>>
    /\ setup = <<>>
    /\ \E pg_conn \in PgConns, execute_ok \in BOOLEAN :
           setup' = << [ pg_conn |-> pg_conn,
                         out     |-> IF coll[1].exc # "none"
                                     THEN ViewOutcome(coll[1].exc, {}, FALSE)
                                     ELSE setup_obs_view(coll[1], pg_conn, {}, execute_ok) ] >>
    /\ UNCHANGED <<leaf, blk, raw, cnd, pc, store, table, win, ws_rows, coll, expr, name, pgid, site_alias, errs, added>>

NextSheet == FromXlsxSheet \/ SetupObsView

SpecSheet == InitSheet /\ [][NextSheet]_vars

\* ------------------------------------------------------------------------
\* to_pg_identifier on its own
\* ------------------------------------------------------------------------
MaxNamePieces == 3

\* a space, letters in both cases with and without umlauts, a letter that is
\* not ASCII and no umlaut of eliminate_umlauts, a digit, the underscore and
\* a character that is neither alphanumeric nor the underscore
NamePieces ==
    { <<" ">>, <<"a">>, <<"B">>, <<"ä">>, <<"Ä">>, <<"ö">>, <<"Ö">>, <<"å">>,
      <<"1">>, <<"_">>, <<"-">> }

\* n times the character c
Repeat(c, n) == [i \in 1..n |-> c]

\* The identifiers of src/test_tsa.py, names of base relations as they may be
\* written, and names around the lengths 40 and 63
ExtraNames ==
    { <<"Y", "l", "ö", "j", "ä", "r", "v", "i", "_", "e", "t", "e", "l", "ä", "ä", "n", "_", "2">>,
      <<"2", "_", "Y", "l", "ö", "j", "ä", "r", "v", "i", "_", "e", "t", "e", "l", "ä", "ä", "n">>,
      <<"Y", "l", "ö", "j", "ä", "r", "v", "i", " ", "e", "t", "e", "l", "ä", "ä", "n">>,
      <<" ", "Y", "l", "ö", "j", "ä", "r", "v", "i", " ", "e", "t", "e", "L", "Ä", "Ä", "n", " ", "2", " ">>,
      <<"T", "o", "o", "L", "o", "n", "g", "I", "d", "e", "n", "t", "i", "f", "i", "e", "r", "T", "o", "o", "L", "o", "n", "g", "I", "d", "e", "n", "t", "i", "f", "i", "e", "r", "T", "o", "o", "L", "o", "n", "g", "I", "d", "e", "n", "t", "i", "f", "i", "e", "r", "T", "o", "o", "L", "o", "n", "g", "I", "d", "e", "n", "t", "i", "f", "i", "e", "r">>,
      <<"S", "e", "o", "b", "s">>,
      <<" ", "S", "T", "A", "T", "I", "O", "N", "S", " ">>,
      <<"t", "i", "e", "s", "a", "a", " ", "a", "s", "e", "m", "a">>,
      <<"L", "a", "s", "k", "e", "n", "n", "a", "l", "l", "i", "n", "e", "n", "_", "A", "n", "t", "u", "r", "i">>,
      Repeat("a", 40), Repeat("a", 41), Repeat("a", 63), Repeat("a", 64),
      <<" ">> \o Repeat("B", 63) \o <<" ">>,
      Repeat("a", 20) \o <<" ">> \o Repeat("a", 20) }

InitIdent ==
    /\ name \in Pieces(NamePieces, MaxNamePieces) \cup ExtraNames
    /\ pgid = <<>>
    /\ leaf = <<>>
    /\ blk = <<>>
    /\ raw = <<>>
    /\ cnd = <<>>
    /\ pc = "idle"
    /\ store = <<>>
    /\ table = <<>>
    /\ win = <<>>
    /\ ws_rows = <<>>
    /\ coll = <<>>
    /\ expr = <<>>
    /\ site_alias = <<>>
    /\ errs = <<>>
    /\ added = <<>>
    /\ setup = <<>>

\* to_pg_identifier(name)
ToPgIdentifier ==
    /\ pgid = <<>>
    /\ pgid' = <<to_pg_identifier(name)>>
    /\ UNCHANGED <<leaf, blk, raw, cnd, pc, store, table, win, ws_rows, coll, expr, name, site_alias, errs, added, setup>>

NextIdent == ToPgIdentifier

SpecIdent == InitIdent /\ [][NextIdent]_vars

\* ------------------------------------------------------------------------
\* The temp table of a Condition by its site and master alias
\* ------------------------------------------------------------------------
\* Sites and master aliases that concatenate to the name of a base relation,
\* as they are and with upper case and spaces around them, that do not, and
\* that are such names themselves
TablePairs ==
    { << <<"t", "i", "e", "s", "a", "a">>, <<"a", "s", "e", "m", "a">> >>,
      << <<"l", "a", "s", "k", "e", "n", "n", "a", "l", "l", "i", "n", "e", "n">>, <<"a", "n", "t", "u", "r", "i">> >>,
      << <<" ", "T", "i", "e", "s", "a", "a", " ">>, <<"A", "S", "E", "M", "A">> >>,
      << <<"L", "a", "s", "k", "e", "n", "n", "a", "l", "l", "i", "n", "e", "n">>, <<"A", "n", "t", "u", "r", "i", " ">> >>,
      << <<"p", "1">>, <<"e">> >>,
      << <<"t", "i", "e", "s", "a", "a", "_", "a", "s", "e", "m", "a">>, <<"e">> >>,
      << <<"t", "i", "e", "s", "a", "a">>, <<"a", "s", "e", "m", "a", "_", "e">> >>,
      << <<"s", "t", "a", "t">>, <<"o", "b", "s">> >>,
      << <<"s", "e", "o", "b", "s">>, <<"e">> >>,
      << <<"p", "1">>, <<"s", "e", "n", "s", "o", "r", "s">> >> }

\* One primary block, with not, with a sensor that has no id, twice the same
\* block, and a condition without blocks
TableConds ==
    { <<"s", "1", "#", "x", " ", ">", " ", "1">>,
      <<"n", "o", "t", " ", "s", "1", "#", "x", " ", ">", " ", "1">>,
      <<"s", "1", "#", "y", " ", ">", " ", "1">>,
      <<"(">>,
      <<"s", "1", "#", "x", " ", ">", " ", "1", " ", "a", "n", "d", " ", "s", "1", "#", "x", " ", ">", " ", "1">> }

InitTable ==
    /\ site_alias \in TablePairs
    /\ raw \in TableConds
    /\ cnd = <<>>
    /\ leaf = <<>>
    /\ blk = <<>>
    /\ pc = "new"
    /\ store = <<>>
    /\ table = <<>>
    /\ win = CndTimeRange
    /\ ws_rows = <<>>
    /\ coll = <<>>
    /\ expr = <<>>
    /\ name = <<>>
    /\ pgid = <<>>
    /\ errs = <<>>
    /\ added = <<>>
    /\ setup = <<>>

NextTable == ConditionInit \/ SetSensorIds \/ CreateDbTemptable

SpecTable == InitTable /\ [][NextTable]_vars

\* ------------------------------------------------------------------------
\* The errors of a tsa object
\* ------------------------------------------------------------------------
\* at most MaxAdds calls of add on one collection
MaxAdds == 4

ErrMsgs == { <<"a">>, <<"b">>, <<"c">> }

ErrContexts == { <<"X">>, <<"Y">> }

LogAdds == { <<>>, <<"w", "a", "r", "n", "i", "n", "g">> }

InitErrs ==
    /\ \E context \in ErrContexts : errs = <<TsaErrCollection(context)>>
    /\ added = <<>>
    /\ leaf = <<>>
    /\ blk = <<>>
    /\ raw = <<>>
    /\ cnd = <<>>
    /\ pc = "idle"
    /\ store = <<>>
    /\ table = <<>>
    /\ win = <<>>
    /\ ws_rows = <<>>
    /\ coll = <<>>
    /\ expr = <<>>
    /\ name = <<>>
    /\ pgid = <<>>
    /\ site_alias = <<>>
    /\ setup = <<>>

\* errs.add(msg, log_add)
Add ==
    /\ errs # <<>>
    /\ Len(added) < MaxAdds
    /\ \E msg \in ErrMsgs, log_add \in LogAdds :
           /\ errs' = <<TsaErrCollection_add(errs[1], msg, log_add)>>
           /\ added' = Append(added, msg)
    /\ UNCHANGED <<leaf, blk, raw, cnd, pc, store, table, win, ws_rows, coll, expr, name, pgid, site_alias, setup>>

NextErrs == Add

SpecErrs == InitErrs /\ [][NextErrs]_vars

\* ------------------------------------------------------------------------
\* Properties of Block construction
\* ------------------------------------------------------------------------
\* number of '#' characters of a leaf
NumHash(s) == Cardinality({i \in 1..Len(s) : s[i] = "#"})

\* the places of a leaf where a binary operator stands between two spaces
OpPlaces(s) ==
    {p \in (1..Len(binops)) \X (1..Len(s)) : OccursAt(s, binops[p[1]], p[2])}

NumOps(s) == Cardinality(OpPlaces(s))

HashAt(s) == CHOOSE i \in 1..Len(s) : s[i] = "#"

OpAt(s) == CHOOSE p \in OpPlaces(s) : TRUE

\* C9: Block.unpack_logic classifies a leaf by its number of '#' and of
\* space-surrounded binary operators: (0, 0) is a secondary block of the parent
\* site whose source alias is the normalized leaf; (1, 0) is a secondary block
\* with the site before and the source alias after the '#'; (1, 1) is a primary
\* block with station, sensor, operator and value; every other combination
\* raises ValueError and sets no block type.
C9_UnpackLogicClassifies ==
    blk # <<>> =>
        LET b  == blk[1]
            nh == NumHash(leaf)
            no == NumOps(leaf)
            h  == HashAt(leaf)
            o  == OpAt(leaf)
            ok == b.exc = "none"
        IN IF nh = 0 /\ no = 0
           THEN /\ b.secondary = "True"
                /\ b.site = BlkSite
                /\ ok => b.source_alias = Normalized(leaf)
           ELSE IF nh = 1 /\ no = 0
           THEN /\ b.secondary = "True"
                /\ ok => /\ b.site = Normalized(SubSeq(leaf, 1, h - 1))
                         /\ b.source_alias = Normalized(Drop(leaf, h + 1))
           ELSE IF nh = 1 /\ no = 1
           THEN /\ b.secondary = "False"
                /\ ok => /\ b.station = Normalized(SubSeq(leaf, 1, h - 1))
                         /\ b.sensor = Normalized(SubSeq(leaf, h + 1, o[2] - 1))
                         /\ b.operator = strip(binops[o[1]])
                         /\ b.value_str = strip(Drop(leaf, o[2] + Len(binops[o[1]])))
           ELSE b.exc = "ValueError" /\ b.secondary = "None"

\* C10: a primary block with the operator "in" is constructed only when its
\* value both starts with '(' and ends with ')'.
C10_InNeedsBothParentheses ==
    (blk # <<>> /\ blk[1].exc = "none" /\ blk[1].operator = <<"i", "n">>) =>
        (blk[1].value_str[1] = "(" /\ blk[1].value_str[Len(blk[1].value_str)] = ")")

\* a numeric literal: an optional sign, then digits with at most one point
\* among them and at least one digit
IsNumericLiteral(x) ==
    LET body == IF x # <<>> /\ x[1] \in {"+", "-"} THEN Tail(x) ELSE x
    IN /\ \E i \in 1..Len(body) : isdigit(body[i])
       /\ \A i \in 1..Len(body) : isdigit(body[i]) \/ body[i] = "."
       /\ Cardinality({i \in 1..Len(body) : body[i] = "."}) <= 1

\* C11: a primary block whose operator is not "in" is constructed only when
\* the value after the operator is a numeric literal; otherwise Block()
\* raises an error.
C11_ValueIsNumeric ==
    (blk # <<>> /\ blk[1].exc = "none" /\ blk[1].secondary = "False"
        /\ blk[1].operator # <<"i", "n">>) => IsNumericLiteral(blk[1].value_str)

\* ------------------------------------------------------------------------
\* Properties of Condition construction
\* ------------------------------------------------------------------------
Built == cnd # <<>> /\ cnd[1].exc = "none"

\* validate_order found nothing and make_blocks set the attributes
Validated == Built /\ cnd[1].secondary # "None"

IsKeywordOrPar(el) == el \in {<<"(">>, <<")">>, kw_and, kw_or, kw_not}

IsLeafText(el) == ~IsKeywordOrPar(el)

IsGoodLeaf(el) == Block(CndMaster, CndSite, 0, el).exc = "none"

\* the leaf occurrences of the condition, left to right, and those of them
\* that Block() accepts
LeafTexts(c) == SelectSeq(new_sp_of(join_split(c.condition)), IsLeafText)

GoodLeaves(c) == SelectSeq(LeafTexts(c), IsGoodLeaf)

IsBlockEl(t) == t.role = "block"

BlockEls(c) == SelectSeq(c.condition_elements, IsBlockEl)

SeqRange(q) == {q[k] : k \in 1..Len(q)}

\* C5: within one Condition two leaf occurrences are represented by the same
\* Block (same alias) exactly when their normalized leaf text is the same: a
\* leaf repeated k times is one Block of .blocks referenced k times in the
\* element list, and two different leaf texts never share an alias.
C5_OneBlockPerLeafText ==
    Validated =>
        LET c   == cnd[1]
            lv  == GoodLeaves(c)
            els == BlockEls(c)
        IN /\ Len(els) = Len(lv)
           /\ \A i, j \in 1..Len(els) :
                  (els[i].bl[1].alias = els[j].bl[1].alias) <=> (lv[i] = lv[j])
           /\ Len(c.blocks) = Cardinality(SeqRange(lv))
           /\ \A k \in 1..Len(c.blocks) :
                  Cardinality({i \in 1..Len(els) : els[i].bl[1] = c.blocks[k]})
                    = Cardinality({i \in 1..Len(lv) : lv[i] = c.blocks[k].raw_logic})

\* a leaf occurs twice and another leaf occurs next to it
C5_Witness ==
    /\ Validated
    /\ \E i, j \in 1..Len(BlockEls(cnd[1])) :
           i < j /\ BlockEls(cnd[1])[i].bl[1].alias = BlockEls(cnd[1])[j].bl[1].alias
    /\ Len(cnd[1].blocks) >= 2

\* the str without its whitespace
NoWs(x) == SelectSeq(x, LAMBDA ch : ch # " ")

\* the blocks whose alias stands at position i of the alias condition and
\* ends there (no digit follows)
AliasesAt(c, x, i) ==
    {k \in 1..Len(c.blocks) :
        /\ OccursAt(x, c.blocks[k].alias, i)
        /\ ~(i + Len(c.blocks[k].alias) <= Len(x) /\ isdigit(x[i + Len(c.blocks[k].alias)]))}

\* the alias condition with every block alias replaced by the leaf text of
\* that block
RECURSIVE SubstituteBack(_, _, _)
SubstituteBack(c, x, i) ==
    IF i > Len(x) THEN <<>>
    ELSE IF AliasesAt(c, x, i) # {}
    THEN LET k == CHOOSE k \in AliasesAt(c, x, i) : TRUE
         IN c.blocks[k].raw_logic \o SubstituteBack(c, x, i + Len(c.blocks[k].alias))
    ELSE <<x[i]>> \o SubstituteBack(c, x, i + 1)

\* make_blocks accepts the raw condition: no error is recorded
Accepted == Built /\ cnd[1].errors = <<>>

\* C6 as stated: the alias condition with the leaf texts put back equals the
\* lower-cased input up to whitespace.
C6_RoundTripOfLoweredInput ==
    Accepted =>
        NoWs(SubstituteBack(cnd[1], cnd[1].alias_condition, 1)) = NoWs(lower(raw))

\* C6 as amended: the alias condition with the leaf texts put back equals,
\* up to whitespace, the lower-cased input in which eliminate_umlauts has
\* replaced a-umlaut and o-umlaut by a and o.
C6_RoundTripOfCondition ==
    Accepted =>
        NoWs(SubstituteBack(cnd[1], cnd[1].alias_condition, 1))
            = NoWs(eliminate_umlauts(lower(raw)))

\* an accepted condition with parentheses, an operator, a not and two blocks
C6_Witness ==
    /\ Accepted
    /\ Len(cnd[1].blocks) >= 2
    /\ \E k \in 1..Len(cnd[1].condition_elements) :
           cnd[1].condition_elements[k].role = "open_par"
    /\ \E k \in 1..Len(cnd[1].condition_elements) :
           cnd[1].condition_elements[k].role = "andor"

\* the roles of the elements that make_blocks identifies in the condition
RolesOf(c) ==
    LET idfied == Identify(new_sp_of(join_split(c.condition)), 1, <<>>, 0, <<>>,
                           c.master_alias, c.site).idfied
    IN [k \in 1..Len(idfied) |-> idfied[k].role]

OrderErrorReported == \E k \in 1..Len(cnd[1].errors) : cnd[1].errors[k] = MsgElements

\* C7: validate_order reports no error for a sequence of roles exactly when
\* its first role is open_par, not or block, its last role is close_par or
\* block and every adjacent pair is in the table, for sequences of every
\* length, length one included.
C7_ValidateOrderIsTheGrammar ==
    (Built /\ RolesOf(cnd[1]) # <<>>) =>
        (~OrderErrorReported <=> InGrammar(RolesOf(cnd[1])))

\* C8: a raw condition whose numbers of '(' and ')' differ gets an error and
\* neither blocks nor an alias condition.
C8_UnbalancedIsRejected ==
    (Built /\ count(cnd[1].condition, <<"(">>) # count(cnd[1].condition, <<")">>)) =>
        /\ cnd[1].errors # <<>>
        /\ cnd[1].blocks = <<>>
        /\ cnd[1].alias_condition = <<>>

\* ------------------------------------------------------------------------
\* Properties of the temp table and of the summary of a Condition
\* ------------------------------------------------------------------------
\* the temp table of the Condition exists; its rows are the slices
Created == table # <<>>

Slices == table[1]

RECURSIVE TotalDuration(_)
TotalDuration(rows) ==
    IF rows = <<>> THEN 0 ELSE Head(rows).vdiff + TotalDuration(Tail(rows))

\* the rows tile [a, b)
Tiles(rows, a, b) ==
    /\ rows # <<>>
    /\ rows[1].vfrom = a
    /\ rows[Len(rows)].vuntil = b
    /\ \A i \in 1..(Len(rows) - 1) : rows[i + 1].vfrom = rows[i].vuntil
    /\ \A i \in 1..Len(rows) : rows[i].vdiff = rows[i].vuntil - rows[i].vfrom
    /\ TotalDuration(rows) = b - a

\* the intervals of block k that the store gave, and those that overlap,
\* or contain, a slice
Intervals(k) == {store[k][j] : j \in 1..Len(store[k])}

Touching(k, row) == {iv \in Intervals(k) : iv.lo < row.vuntil /\ row.vfrom < iv.hi}

Containing(k, row) == {iv \in Intervals(k) : iv.lo <= row.vfrom /\ row.vuntil <= iv.hi}

\* a block that no interval covers in a slice is unknown there
UncoveredIsUnknown ==
    \A i \in 1..Len(Slices) : \A k \in 1..Len(store) :
        Touching(k, Slices[i]) = {} => Slices[i].vals[k] = "u"

\* all start and end timestamps of all blocks' intervals
Boundaries == UNION {UNION {{iv.lo, iv.hi} : iv \in Intervals(k)} : k \in 1..Len(store)}

Fetched == pc = "fetched" /\ Built /\ cnd[1].main_df # <<>>

FetchedRows == Fetched /\ cnd[1].main_df[1] # <<>>

Window == cnd[1].time_until - cnd[1].time_from

\* two quotients are the same number
SameNumber(p, q) == p.num * q.den = q.num * p.den

ZeroWindow == Built /\ cnd[1].time_from = cnd[1].time_until

\* the three percentages are quotients with the total time as divisor
DividedByTottime ==
    /\ cnd[1].percentage_valid.den = cnd[1].tottime
    /\ cnd[1].percentage_notvalid.den = cnd[1].tottime
    /\ cnd[1].percentage_nodata.den = cnd[1].tottime

C3_SlicesOfSortedBoundaries ==
    Created /\ Len(cnd[1].blocks) >= 2 =>
        /\ \A i \in 1..Len(Slices) :
               /\ Slices[i].vfrom \in Boundaries
               /\ Slices[i].vuntil \in Boundaries
               /\ Slices[i].vfrom < Slices[i].vuntil
               /\ ~ \E b \in Boundaries : Slices[i].vfrom < b /\ b < Slices[i].vuntil
               /\ \A j \in 1..Len(Slices) : i < j => Slices[i].vuntil <= Slices[j].vfrom
        /\ \A b \in Boundaries :
               (\E b2 \in Boundaries : b < b2) => \E i \in 1..Len(Slices) : Slices[i].vfrom = b
        /\ \A i \in 1..Len(Slices) : \A k \in 1..Len(store) :
               /\ Containing(k, Slices[i]) = {} => Slices[i].vals[k] = "u"
               /\ \A iv \in Containing(k, Slices[i]) : Slices[i].vals[k] = iv.val

\* the first block true on [0, 2) and the second true on [1, MaxTime):
\* three slices with the values true-unknown, true-true, unknown-true
C3_Witness ==
    /\ Created
    /\ Len(cnd[1].blocks) = 2
    /\ store = << << [lo |-> 0, hi |-> 2, val |-> "t"] >>,
                  << [lo |-> 1, hi |-> MaxTime, val |-> "t"] >> >>
    /\ Len(Slices) = 3
    /\ Slices[1].vals = <<"t", "u">> /\ Slices[1].vuntil = 1
    /\ Slices[2].vals = <<"t", "t">> /\ Slices[2].vuntil = 2
    /\ Slices[3].vals = <<"u", "t">> /\ Slices[3].vuntil = MaxTime

\* C4: the master value of every slice is the value of the alias expression
\* over the block values of the slice under three-valued logic (AND false
\* if either is false, else unknown if either is unknown, else true; OR
\* true if either is true, else unknown if either is unknown, else false;
\* NOT swaps true and false and keeps unknown), and with a single block the
\* master value is the block value.
C4_MasterIsAliasExpression ==
    Created =>
        \A i \in 1..Len(Slices) :
            LET e == SqlMaster(cnd[1].alias_condition, cnd[1].blocks, Slices[i].vals)
            IN /\ e.ok => Slices[i].master = e.v
               /\ Len(cnd[1].blocks) = 1 => Slices[i].master = Slices[i].vals[1]

\* ------------------------------------------------------------------------
\* Properties of a collection read from a worksheet
\* ------------------------------------------------------------------------
\* the worksheet has been read, and its dates are in order
SheetRead == coll # <<>> /\ win[1] <= win[2]

\* the rows that hand a triple to add_condition
FullRows == SelectSeq(ws_rows, LAMBDA row : ~HasEmptyCell(row))

\* the identifiers of a row parse
IdsParse(row) ==
    to_pg_identifier(row[1]).exc = "none" /\ to_pg_identifier(row[2]).exc = "none"

\* the id_string of a row whose identifiers parse
RowId(row) == to_pg_identifier(row[1]).val \o <<"_">> \o to_pg_identifier(row[2]).val

\* the ids of the rows in the order of their first appearance
RECURSIVE FirstIds(_, _)
FirstIds(rws, seen) ==
    IF rws = <<>> THEN seen
    ELSE FirstIds(Tail(rws),
                  IF IdsParse(Head(rws)) /\ RowId(Head(rws)) \notin SeqRange(seen)
                  THEN Append(seen, RowId(Head(rws))) ELSE seen)

IdsOf(conditions) == [k \in 1..Len(conditions) |-> conditions[k].id_string]

\* C12: after the add_condition calls for the rows of a worksheet, the
\* collection holds one Condition for every id among the rows, the first row
\* of that id, no two of its Conditions have the same id_string, and
\* id_strings is the set of the ids of its Conditions.
C12_OneConditionPerId ==
    SheetRead =>
        /\ IdsOf(coll[1].conditions) = FirstIds(FullRows, <<>>)
        /\ coll[1].id_strings = SeqRange(IdsOf(coll[1].conditions))
        /\ Cardinality(coll[1].id_strings) = Len(coll[1].conditions)

\* a Condition that was constructed without an exception and without an error
ParsesOk(c) == c.exc = "none" /\ c.errors = <<>>

\* the row parses as a Condition of the collection
RowParses(row) ==
    ParsesOk(Condition(row[1], row[2], row[3], <<AtMidnight(win[1]), AtDayEnd(win[2])>>))

ParsedRows == SelectSeq(FullRows, RowParses)

\* C13: after the add_condition calls for the rows of a worksheet, the
\* collection holds Conditions for the rows that parse and for no other row -
\* a row whose site, master alias or raw condition fails parsing leaves no
\* Condition - and the rows that parse are added as if the others were absent.
C13_OnlyParsedRowsAreAdded ==
    SheetRead =>
        /\ IdsOf(coll[1].conditions) = FirstIds(ParsedRows, <<>>)
        /\ \A k \in 1..Len(coll[1].conditions) : ParsesOk(coll[1].conditions[k])

\* the Condition that a row parses to
RowCondition(row) ==
    Condition(row[1], row[2], row[3], <<AtMidnight(win[1]), AtDayEnd(win[2])>>)

\* the row parses to a Condition with a secondary block
IsSecondaryRow(row) == RowCondition(row).secondary = "True"

\* the collection was returned and holds a Condition of this id
Holds(id) ==
    coll[1].exc = "none" /\ \E k \in 1..Len(coll[1].conditions) : coll[1].conditions[k].id_string = id

\* the Conditions of the collection that are secondary, and those that are not
SecondaryIds == { c.id_string : c \in { d \in SeqRange(coll[1].conditions) : d.secondary = "True" } }

PrimaryIds == { c.id_string : c \in { d \in SeqRange(coll[1].conditions) : d.secondary = "False" } }

RECURSIVE FirstOccurrences(_, _)
FirstOccurrences(q, seen) ==
    IF q = <<>> THEN seen
    ELSE FirstOccurrences(Tail(q), IF Head(q) \in SeqRange(seen) THEN seen
                                   ELSE Append(seen, Head(q)))

IndexIn(q, x) == CHOOSE k \in 1..Len(q) : q[k] = x

\* C17: in a Condition that parses without error the distinct leaves, in the
\* order of their first occurrence from left to right, have the aliases
\* master_alias_0, master_alias_1, ..., master_alias_(n-1): every occurrence
\* of the k-th distinct leaf is a block of the alias master_alias_(k-1), so
\* that a repeated leaf takes no order number.
C17_AliasesCountDistinctLeaves ==
    Accepted =>
        LET c   == cnd[1]
            lv  == LeafTexts(c)
            d   == FirstOccurrences(lv, <<>>)
            els == BlockEls(c)
        IN /\ Len(els) = Len(lv)
           /\ \A i \in 1..Len(els) :
                  els[i].bl[1].alias = c.master_alias \o <<"_">> \o str(IndexIn(d, lv[i]) - 1)
           /\ {c.blocks[k].alias : k \in 1..Len(c.blocks)}
                  = {c.master_alias \o <<"_">> \o str(n) : n \in 0..(Len(d) - 1)}

\* a leaf, the same leaf again, and then another leaf, which is block 1
C17_Witness ==
    /\ Accepted
    /\ Len(BlockEls(cnd[1])) = 3
    /\ BlockEls(cnd[1])[1].bl[1].alias = <<"e", "_", "0">>
    /\ BlockEls(cnd[1])[2].bl[1].alias = <<"e", "_", "0">>
    /\ BlockEls(cnd[1])[3].bl[1].alias = <<"e", "_", "1">>

\* the aliases of .blocks, in the order of .blocks
BlockAliases(c) == [k \in 1..Len(c.blocks) |-> c.blocks[k].alias]

\* the aliases of the block elements in the order of their first appearance
\* in the condition
AliasesAsTheyAppear(c) ==
    FirstOccurrences([i \in 1..Len(BlockEls(c)) |-> BlockEls(c)[i].bl[1].alias], <<>>)

\* C18: .blocks holds each distinct Block once, in the order in which the
\* blocks first appear in the condition, whatever their number.
C18_BlocksInOrderOfAppearance ==
    Validated => BlockAliases(cnd[1]) = AliasesAsTheyAppear(cnd[1])

\* C19: in a Condition whose parsing succeeded, secondary is True if at
\* least one of its blocks - one of the block elements of the condition - is
\* a secondary block, and False if none is.
C19_SecondaryIffSomeBlockIs ==
    Validated =>
        /\ cnd[1].secondary \in {"True", "False"}
        /\ cnd[1].secondary = "True"
              <=> \E k \in 1..Len(cnd[1].blocks) : cnd[1].blocks[k].secondary = "True"
        /\ cnd[1].secondary = "True"
              <=> \E i \in 1..Len(BlockEls(cnd[1])) : BlockEls(cnd[1])[i].bl[1].secondary = "True"

\* a primary block and a secondary block: the Condition is secondary
C19_Witness ==
    /\ Validated
    /\ \E k \in 1..Len(cnd[1].blocks) : cnd[1].blocks[k].secondary = "True"
    /\ \E k \in 1..Len(cnd[1].blocks) : cnd[1].blocks[k].secondary = "False"
    /\ cnd[1].secondary = "True"

\* the tokens that make_blocks splits the condition into
TokensOf(c) == new_sp_of(join_split(c.condition))

\* how often x is an element of the sequence q
Times(q, x) == Cardinality({k \in 1..Len(q) : q[k] = x})

\* the texts and the roles of the elements that make_blocks identified
ElementTexts(c) == [k \in 1..Len(c.condition_elements) |-> c.condition_elements[k].el]

ElementRoles(c) == [k \in 1..Len(c.condition_elements) |-> c.condition_elements[k].role]

\* C20: a leaf with a tuple after "in", anywhere in an expression expr of the
\* grammar - alone, in parentheses, before or after and, or, not - is one
\* token whose text holds the whole leaf and ends with the closing ")" of the
\* tuple, so that nothing that follows the tuple is merged into it, and the
\* parentheses of the tuple are no tokens of their own: the tokens "(" and
\* ")" are those of the expression.  The block elements of the Condition are
\* made of these tokens.
C20_TupleLeafIsOneToken ==
    (Built /\ expr # <<>>) =>
        LET T == TokensOf(cnd[1])
        IN /\ Cardinality({k \in 1..Len(T) : contains(T[k], TupleLeaf)})
                 = Times(expr, TupleLeaf)
           /\ \A k \in 1..Len(T) : contains(T[k], TupleLeaf) => endswith(T[k], TupleLeaf)
           /\ Times(T, <<"(">>) = Times(expr, <<"(">>)
           /\ Times(T, <<")">>) = Times(expr, <<")">>)
           /\ \A k \in 1..Len(cnd[1].condition_elements) :
                  /\ cnd[1].condition_elements[k].el \in SeqRange(T)
                  /\ cnd[1].condition_elements[k].role \in {"open_par", "close_par"}
                        <=> cnd[1].condition_elements[k].el \in {<<"(">>, <<")">>}

\* not (s1#x in (1, 2)), written without spaces next to the parentheses
C20_Witness ==
    /\ Accepted
    /\ expr = <<kw_not, <<"(">>, TupleLeaf, <<")">> >>
    /\ raw = Tight(expr)
    /\ ElementRoles(cnd[1]) = <<"not", "open_par", "block", "close_par">>
    /\ cnd[1].condition_elements[3].el = TupleLeaf

\* ------------------------------------------------------------------------
\* Properties of to_pg_identifier
\* ------------------------------------------------------------------------
\* to_pg_identifier has been called, and it returned
Converted == pgid # <<>>

Returns == Converted /\ pgid[1].exc = "none"

\* the name without its leading and trailing spaces
TrimmedName ==
    LET ns == {i \in 1..Len(name) : name[i] # " "}
    IN IF ns = {} THEN <<>> ELSE SubSeq(name, MinOf(ns), MaxOf(ns))

\* what becomes of one character of the trimmed name
StatedChar(c) ==
    IF c = " " THEN "_"
    ELSE IF c \in {"ä", "Ä"} THEN "a"
    ELSE IF c \in {"ö", "Ö"} THEN "o"
    ELSE LowerChar(c)

StatedForm == [i \in 1..Len(TrimmedName) |-> StatedChar(TrimmedName[i])]

AsciiLetters == {LowerSeq[i] : i \in 1..26} \cup {UpperSeq[i] : i \in 1..26}

IsAsciiIdentifier(x) ==
    /\ x # <<>>
    /\ x[1] \notin Digits
    /\ \A i \in 1..Len(x) : x[i] \in AsciiLetters \cup Digits \cup {"_"}
    /\ x \notin DISABLED_IDENTIFIERS

\* C22: what to_pg_identifier returns is not empty, does not start with a
\* digit, is made of ASCII letters, ASCII digits and "_" only and is no
\* reserved relation name; a name whose normalized form is not like this is
\* rejected with ValueError.
C22_ReturnedIsAsciiIdentifier ==
    Converted =>
        /\ Returns => IsAsciiIdentifier(pgid[1].val)
        /\ ~IsAsciiIdentifier(StatedForm) => pgid[1].exc = "ValueError"

\* the maximum length that the docstring and the error message give
StatedMaxLen == 40

\* C23: to_pg_identifier raises ValueError for a name whose normalized form
\* is longer than 40 characters.
C23_LongerThan40IsRejected ==
    (Converted /\ Len(StatedForm) > StatedMaxLen) => pgid[1].exc = "ValueError"

\* a space between two characters that are no spaces
HasInnerSpace(x) ==
    \E i, j, k \in 1..Len(x) : i < j /\ j < k /\ x[i] # " " /\ x[j] = " " /\ x[k] # " "

\* C24: to_pg_identifier raises ValueError for a name with a space between
\* two characters that are no spaces.
C24_InnerSpaceIsRejected ==
    (Converted /\ HasInnerSpace(name)) => pgid[1].exc = "ValueError"

\* ------------------------------------------------------------------------
\* Properties of the temp table by site and master alias
\* ------------------------------------------------------------------------
\* create_db_temptable has been called on a Condition that is named as a
\* base relation of the database
TemptableCalled == pc = "created"

NamedAsBaseRelation ==
    cnd # <<>> /\ cnd[1].exc = "none" /\ cnd[1].id_string \in DISABLED_IDENTIFIERS

HasError(c, msg) == \E k \in 1..Len(c.errors) : c.errors[k] = msg

\* C25: create_db_temptable on a Condition whose id_string is the name of a
\* base relation records an error, leaves has_view False and executes
\* nothing in the database: no temp table and no block tables are made, and
\* the error of a failed execute is not recorded.
C25_BaseRelationIsNotDropped ==
    (TemptableCalled /\ NamedAsBaseRelation) =>
        /\ table = <<>>
        /\ store = <<>>
        /\ ~cnd[1].has_view
        /\ HasError(cnd[1], MsgReserved) \/ HasError(cnd[1], MsgNoBlocks)
        /\ ~HasError(cnd[1], MsgCreate)

\* site and master alias are written with upper case and spaces, the block
\* has its sensor id, and the name is refused
C25_Witness ==
    /\ TemptableCalled
    /\ NamedAsBaseRelation
    /\ site_alias = << <<" ", "T", "i", "e", "s", "a", "a", " ">>, <<"A", "S", "E", "M", "A">> >>
    /\ cnd[1].id_string = <<"t", "i", "e", "s", "a", "a", "_", "a", "s", "e", "m", "a">>
    /\ Len(cnd[1].blocks) = 1
    /\ cnd[1].blocks[1].sensor_id # None
    /\ cnd[1].errors = <<MsgReserved>>

\* ------------------------------------------------------------------------
\* Properties of the keyword not and of the nesting of parentheses
\* ------------------------------------------------------------------------
\* C26: every not of an expression expr of the grammar - at its start, after
\* and / or, after "(" with or without a space between them - is an
\* element with the role not, and the text of no element begins with the
\* keyword.
C26_NotIsItsOwnToken ==
    (Built /\ expr # <<>>) =>
        /\ Times(ElementRoles(cnd[1]), "not") = Times(expr, kw_not)
        /\ \A k \in 1..Len(cnd[1].condition_elements) :
               ~startswith(cnd[1].condition_elements[k].el, kw_not \o <<" ">>)

\* the number of tokens x among the first k tokens of q
TimesUpTo(q, x, k) == Cardinality({j \in 1..k : q[j] = x})

\* C27: a raw condition that make_blocks accepts without an error has
\* properly nested parentheses: no prefix of its tokens has more ")" than
\* "(".
C27_AcceptedIsProperlyNested ==
    Accepted =>
        \A k \in 1..Len(TokensOf(cnd[1])) :
            TimesUpTo(TokensOf(cnd[1]), <<")">>, k) <= TimesUpTo(TokensOf(cnd[1]), <<"(">>, k)

\* ------------------------------------------------------------------------
\* Properties of the ids of the Conditions of a worksheet
\* ------------------------------------------------------------------------
\* the normalized site and master alias of a row
NormalizedPair(row) == <<Normalized(row[1]), Normalized(row[2])>>

\* C28: two rows of a worksheet whose normalized sites and master aliases
\* differ get Conditions with different id_strings, so that add_condition
\* finds the id of the later row reserved only when the pairs are equal.
C28_DifferentPairsDifferentIds ==
    SheetRead =>
        \A i, j \in 1..Len(FullRows) :
            ( /\ RowCondition(FullRows[i]).exc = "none"
              /\ RowCondition(FullRows[j]).exc = "none"
              /\ NormalizedPair(FullRows[i]) # NormalizedPair(FullRows[j]) )
            => RowCondition(FullRows[i]).id_string # RowCondition(FullRows[j]).id_string

\* ------------------------------------------------------------------------
\* Properties of the errors of a tsa object
\* ------------------------------------------------------------------------
ErrMsgsOf(ec) == [k \in 1..Len(ec.errors) |-> ec.errors[k].msg]

\* C29: after any sequence of add calls the collection holds one TsaError
\* for every message that was added, in the order of first addition, and
\* the n_more of each is the number of further times its message was added.
C29_OneErrorPerMessage ==
    errs # <<>> =>
        /\ ErrMsgsOf(errs[1]) = FirstOccurrences(added, <<>>)
        /\ \A k \in 1..Len(errs[1].errors) :
               errs[1].errors[k].n_more = Times(added, errs[1].errors[k].msg) - 1

\* ------------------------------------------------------------------------
\* Properties of the views of a collection
\* ------------------------------------------------------------------------
\* C30: setup_obs_view creates the view obs_main whenever a connection is
\* given; without a connection it records the warning and returns without
\* touching the database.
C30_ObsViewIffConnection ==
    setup # <<>> =>
        IF setup[1].pg_conn # "None"
        THEN setup[1].out.exc = "none" /\ "obs_main" \in setup[1].out.views
        ELSE setup[1].out.exc = "none" /\ setup[1].out.warned /\ setup[1].out.views = {}

========================================================================
